---- MODULE Spec2Model ----
(***************************************************************************)
(* A model of the five f5_bigip modules (bigip_ucs_fetch, bigip_ssl_csr,   *)
(* bigip_vcmp_guest, bigiq_device_discovery, bigip_command).  One run of   *)
(* one module is a sequential process: pc is the position in the module's  *)
(* code, every device call is one step whose response the device (dev)     *)
(* decides, calls is the log of the non-GET calls and local file writes    *)
(* issued so far, reads counts the GET calls.                              *)
(***************************************************************************)
EXTENDS Integers, Sequences, FiniteSets, TLC

VARIABLES
    mod,      \* the module that runs
    pc,       \* position in the module's code
    want,     \* the user's parameters (module.params), incl. check_mode
    dev,      \* the device and the local file system
    have,     \* the observed parameters read from the device
    changes,  \* self.changes: the change set
    calls,    \* the non-GET device calls and file writes issued, in order
    reads,    \* the number of GET calls issued (saturating)
    loc,      \* local variables of the running method
    result    \* what main() hands back: status, changed, msg

vars == <<mod, pc, want, dev, have, changes, calls, reads, loc, result>>

\* Python's None.
None == "None"

\* The GET counter saturates here; the code has no such counter.
MaxReads == 4

\* ------------------------------------------------------------------------
\* Shared helpers
\* ------------------------------------------------------------------------

\* The codes every module accepts as success.
OkCodes == {200, 201, 202}

NoLoc == [x |-> 0]

NoResult == [status |-> "running", changed |-> "unset", msg |-> ""]

\* One more GET has been issued.
Get == reads' = IF reads < MaxReads THEN reads + 1 ELSE reads

\* A logged call: method, resource, the retry loop it was issued from (or
\* "none") and the 1-based iteration of that loop.
Call(m, r, loop, it) == [m |-> m, r |-> r, loop |-> loop, it |-> it, p |-> <<>>]

\* A logged call that carries a payload.
CallP(m, r, payload) == [m |-> m, r |-> r, loop |-> "none", it |-> 0, p |-> payload]

Issue(m, r) == calls' = Append(calls, Call(m, r, "none", 0))

\* raise F5ModuleError(msg): main() catches it and calls fail_json.
Fail(msg) ==
    /\ pc' = "failed"
    /\ result' = [status |-> "failed", changed |-> "unset", msg |-> msg]

\* Any other exception escapes main() uncaught.
Crash(msg) ==
    /\ pc' = "crashed"
    /\ result' = [status |-> "crashed", changed |-> "unset", msg |-> msg]

\* exec_module returns result with changed = c; main() calls exit_json.
Exit(c) ==
    /\ pc' = "done"
    /\ result' = [status |-> "ok", changed |-> c, msg |-> ""]

Bool2Str(b) == IF b THEN "true" ELSE "false"

\* ------------------------------------------------------------------------
\* bigip_ucs_fetch
\* ------------------------------------------------------------------------

\* divisor in ModuleParameters.timeout: the number of polls of async_wait.
divisor == 100

TimeoutMin == 150

TimeoutMax == 1800

\* The timeouts a run is given: both ends of the range and one outside each.
UcsTimeouts == {TimeoutMin - 1, TimeoutMin, TimeoutMax, TimeoutMax + 1}

\* ModuleParameters.timeout raises outside 150..1800.
TimeoutInvalid(t) == t < TimeoutMin \/ t > TimeoutMax

\* The local destination: its directory is missing, is not writable, or the
\* file is absent or present.
DestStates == {"nodir", "nowrite", "absent", "present"}

\* mutually_exclusive: only_create_file and task_id.
UcsWants ==
    { w \in [task_id : {None, "t1"}, only_create_file : BOOLEAN, force : BOOLEAN,
             backup : BOOLEAN, fail_on_missing : BOOLEAN,
             create_on_missing : BOOLEAN, timeout : UcsTimeouts,
             check_mode : BOOLEAN] :
        ~(w.only_create_file /\ w.task_id # None) }

\* ucs: the UCS file is on the device; dest: the local destination, dest0:
\* the local destination when the run began.
UcsDevs == { d \in [ucs : BOOLEAN, dest : DestStates, dest0 : DestStates] : d.dest0 = d.dest }

InitUcs ==
    /\ mod = "ucs"
    /\ pc = "ucs_present"
    /\ want \in UcsWants
    /\ dev \in UcsDevs
    /\ have = None
    /\ changes = {}
    /\ calls = <<>>
    /\ reads = 0
    /\ loc = NoLoc
    /\ result = NoResult

\* present(): task_id given -> check_task; else exists() reads /mgmt/tm/sys/ucs.
ucs_present ==
    /\ mod = "ucs" /\ pc = "ucs_present"
    /\ IF want.task_id # None
       THEN /\ pc' = "ucs_check_task_exists"
            /\ UNCHANGED <<reads, result>>
       ELSE /\ Get
            /\ \E code \in {200, 500} :
                 IF code \notin OkCodes
                 THEN Fail("remote error")
                 ELSE /\ UNCHANGED result
                      /\ pc' = IF dev.ucs
                               THEN (IF want.only_create_file THEN "ucs_return"
                                     ELSE "ucs_update")
                               ELSE "ucs_create"
    /\ UNCHANGED <<mod, want, dev, have, changes, calls, loc>>

\* check_task_exists_on_device, then the first lines of async_wait, which
\* read self.want.timeout.
ucs_check_task_exists_on_device ==
    /\ mod = "ucs" /\ pc = "ucs_check_task_exists"
    /\ Get
    /\ \E code \in {200, 404} :
         IF code \notin OkCodes
         THEN Fail("The task with the given task_id does not exist.") /\ UNCHANGED loc
         ELSE IF TimeoutInvalid(want.timeout)
         THEN Fail("Timeout value must be between 150 and 1800 seconds.") /\ UNCHANGED loc
         ELSE /\ pc' = "ucs_async_wait"
              /\ loc' = [x |-> 0]
              /\ UNCHANGED result
    /\ UNCHANGED <<mod, want, dev, have, changes, calls>>

\* The states a polled UCS task reports.
UcsTaskStates == {"VALIDATING", "COMPLETED", "FAILED"}

\* async_wait that goes on polling after a FAILED task state.
AsyncWaitIgnoresFailed(code, st) ==
    IF code \in OkCodes /\ st = "COMPLETED" THEN "completed" ELSE "continue"

\* async_wait: does a poll response end the loop, and how.
AsyncWaitOutcome(code, st) ==
    IF code \in OkCodes /\ st = "FAILED" THEN "failed"
    ELSE IF code \in OkCodes /\ st = "COMPLETED" THEN "completed"
    ELSE "continue"

\* One iteration of "for x in range(0, period)" in async_wait, or the raise
\* after the loop.  loc.code keeps the code of the poll the loop went on
\* from, loc.st the _taskState of the last poll ("none" in a response that
\* is not 2xx).
ucs_async_wait ==
    /\ mod = "ucs" /\ pc = "ucs_async_wait"
    /\ IF loc.x < divisor
       THEN /\ Get
            /\ \E code \in {200, 500}, st \in UcsTaskStates :
                 LET o == AsyncWaitOutcome(code, st) IN
                 IF o = "failed"
                 THEN Fail("Task failed unexpectedly.") /\ loc' = [x |-> 0, st |-> st]
                 ELSE IF o = "completed"
                 THEN /\ pc' = "ucs_update" /\ loc' = [x |-> 0, st |-> st]
                      /\ UNCHANGED result
                 ELSE /\ loc' = [x |-> loc.x + 1, code |-> code,
                                 st |-> IF code \in OkCodes THEN st ELSE "none"]
                      /\ UNCHANGED <<pc, result>>
       ELSE /\ Fail("Module timeout reached, state change is unknown")
            /\ UNCHANGED <<loc, reads>>
    /\ UNCHANGED <<mod, want, dev, have, changes, calls>>

\* create(): the two missing-file errors, the check-mode return, and
\* create_async_task_on_device (POST).
ucs_create ==
    /\ mod = "ucs" /\ pc = "ucs_create"
    /\ IF want.fail_on_missing \/ ~want.create_on_missing
       THEN Fail("UCS was not found") /\ UNCHANGED calls
       ELSE IF want.check_mode
       THEN pc' = "ucs_return" /\ UNCHANGED <<calls, result>>
       ELSE /\ Issue("POST", "task/sys/ucs")
            /\ \E code \in {200, 500} :
                 IF code \in OkCodes
                 THEN pc' = "ucs_start_task" /\ UNCHANGED result
                 ELSE Fail("remote error")
    /\ UNCHANGED <<mod, want, dev, have, changes, reads, loc>>

\* _start_task_on_device (PUT), then the changes.update calls of
\* create_on_device.
ucs_start_task_on_device ==
    /\ mod = "ucs" /\ pc = "ucs_start_task"
    /\ Issue("PUT", "task/sys/ucs/id")
    /\ \E code \in {200, 500} :
         IF code \in OkCodes
         THEN /\ pc' = "ucs_return"
              /\ changes' = changes \cup {"task_id", "src", "message"}
              /\ UNCHANGED result
         ELSE Fail("remote error") /\ UNCHANGED changes
    /\ UNCHANGED <<mod, want, dev, have, reads, loc>>

\* update() that transfers whatever the destination holds.
UpdateNeverRefuses == FALSE

\* update(): "if os.path.exists(self.want.fulldest): if not self.want.force".
UpdateRefuses == dev.dest = "present" /\ ~want.force

\* update(): self.want.fulldest, the already-exists error.
ucs_update ==
    /\ mod = "ucs" /\ pc = "ucs_update"
    /\ IF dev.dest = "nodir" THEN Fail("Destination directory does not exist")
       ELSE IF dev.dest = "nowrite" THEN Fail("Destination not writable")
       ELSE IF UpdateRefuses THEN Fail("File already exists")
       ELSE pc' = "ucs_execute" /\ UNCHANGED result
    /\ UNCHANGED <<mod, want, dev, have, changes, calls, reads, loc>>

\* execute(): the optional backup, download() and the changes.update calls.
\* The transfer writes the file, leaves none, or raises IOError.
ucs_execute ==
    /\ mod = "ucs" /\ pc = "ucs_execute"
    /\ \E outcome \in {"written", "missing", "ioerror"} :
         /\ calls' = (IF want.backup /\ dev.dest = "present"
                      THEN Append(calls, Call("BACKUP", "dest", "none", 0))
                      ELSE calls)
                     \o <<Call("DOWNLOAD", "ucs-downloads/src", "none", 0)>>
         /\ IF outcome = "ioerror"
            THEN Fail("Failed to copy") /\ UNCHANGED <<dev, changes>>
            ELSE IF outcome = "missing" /\ dev.dest = "absent"
            THEN Fail("Failed to download the remote file") /\ UNCHANGED <<dev, changes>>
            ELSE /\ dev' = [dev EXCEPT !.dest = "present"]
                 /\ changes' = changes \cup
                       (IF want.backup /\ dev.dest = "present" THEN {"backup_file"} ELSE {})
                       \cup {"src", "md5sum", "checksum"}
                 /\ pc' = "ucs_return"
                 /\ UNCHANGED result
    /\ UNCHANGED <<mod, want, have, reads, loc>>

\* The changed value exec_module puts in the result.
UcsChanged == "true"

\* exec_module after present(): result.update(dict(changed=True)).
ucs_exec_module_return ==
    /\ mod = "ucs" /\ pc = "ucs_return"
    /\ Exit(UcsChanged)
    /\ UNCHANGED <<mod, want, dev, have, changes, calls, reads, loc>>

NextUcs ==
    \/ ucs_present
    \/ ucs_check_task_exists_on_device
    \/ ucs_async_wait
    \/ ucs_create
    \/ ucs_start_task_on_device
    \/ ucs_update
    \/ ucs_execute
    \/ ucs_exec_module_return

SpecUcs == InitUcs /\ [][NextUcs]_vars

\* ------------------------------------------------------------------------
\* bigip_ssl_csr
\* ------------------------------------------------------------------------

\* required_if: common_name and key_name are given when state is present;
\* province is the one optional field kept apart (it is sent as "state").
CsrWants ==
    [state : {"present", "absent"}, force : BOOLEAN, province : {None, "CA"},
     check_mode : BOOLEAN]

\* csr: the CSR object exists on the device, csr0: it did when the run
\* began; bulk: the csr file lies in the download directory; v14: TMOS is
\* 14.x or above; dest: the local file.
CsrDevs ==
    { d \in [csr : BOOLEAN, csr0 : BOOLEAN, bulk : BOOLEAN, v14 : BOOLEAN,
             dest : {"nodir", "absent", "present"},
             dest0 : {"nodir", "absent", "present"}] :
        d.csr0 = d.csr /\ d.dest0 = d.dest }

InitCsr ==
    /\ mod = "csr"
    /\ pc = "csr_exec_module"
    /\ want \in CsrWants
    /\ dev \in CsrDevs
    /\ have = None
    /\ changes = {}
    /\ calls = <<>>
    /\ reads = 0
    /\ loc = NoLoc
    /\ result = NoResult

\* The codes exists() can see: 200 or 404 as the device has the CSR, or an
\* error.
CsrExistsCodes == {IF dev.csr THEN 200 ELSE 404, 500}

\* exec_module: version_is_less_than_14, then present() up to exists() or
\* absent().
csr_exec_module ==
    /\ mod = "csr" /\ pc = "csr_exec_module"
    /\ Get
    /\ IF ~dev.v14 THEN Fail("This module requires TMOS version 14.x and above.")
       ELSE IF want.state = "present" /\ dev.dest = "present" /\ ~want.force
       THEN Fail("The specified 'dest' file already exists.")
       ELSE IF want.state = "present" /\ dev.dest = "nodir"
       THEN Fail("The directory of your 'dest' file does not exist.")
       ELSE pc' = "csr_exists" /\ UNCHANGED result
    /\ UNCHANGED <<mod, want, dev, have, changes, calls, loc>>

\* exists() as called from present() and absent().
csr_exists ==
    /\ mod = "csr" /\ pc = "csr_exists"
    /\ Get
    /\ \E code \in CsrExistsCodes :
         IF code = 404
         THEN IF want.state = "present"
              THEN pc' = "csr_create" /\ UNCHANGED <<loc, result>>
              ELSE pc' = "csr_return" /\ loc' = [changed |-> "false"] /\ UNCHANGED result
         ELSE IF code \in OkCodes
         THEN IF want.state = "present"
              THEN pc' = "csr_return" /\ loc' = [changed |-> "false"] /\ UNCHANGED result
              ELSE pc' = "csr_remove" /\ UNCHANGED <<loc, result>>
         ELSE Fail("remote error") /\ UNCHANGED loc
    /\ UNCHANGED <<mod, want, dev, have, changes, calls>>

\* _set_changed_options that keeps no field.
CsrSetNothing == {}

\* _set_changed_options over Parameters.returnables: the given fields.
CsrSetChangedOptions ==
    {"common_name", "key_name"} \cup (IF want.province # None THEN {"province"} ELSE {})

\* create_on_device: api_params() of the change set (province is not among
\* api_attributes), name and partition, and province sent as "state".
CsrCreatePayload(ch) ==
    [k \in (ch \cap {"common_name", "key_name"}) \cup {"name", "partition"}
            \cup (IF want.province # None THEN {"state"} ELSE {}) |->
        IF k = "state" THEN want.province ELSE "given"]

\* create() that returns before create_on_device in every mode.
CsrCreateNever == TRUE

\* create(): does it return before create_on_device.
CsrCreateSkips == want.check_mode

\* create(): _set_changed_options, the check-mode return, create_on_device.
csr_create ==
    /\ mod = "csr" /\ pc = "csr_create"
    /\ changes' = CsrSetChangedOptions
    /\ IF CsrCreateSkips
       THEN pc' = "csr_move" /\ UNCHANGED <<calls, dev, result>>
       ELSE /\ calls' = Append(calls, CallP("POST", "sys/crypto/csr",
                                            CsrCreatePayload(CsrSetChangedOptions)))
            /\ \E code \in {200, 500} :
                 IF code \in OkCodes
                 THEN /\ dev' = [dev EXCEPT !.csr = TRUE]
                      /\ pc' = "csr_move"
                      /\ UNCHANGED result
                 ELSE Fail("remote error") /\ UNCHANGED dev
    /\ UNCHANGED <<mod, want, have, reads, loc>>

\* _move_csr_to_download: the response is not looked at; loc.code keeps
\* its code.  A move the device refuses moves nothing.
csr_move_csr_to_download ==
    /\ mod = "csr" /\ pc = "csr_move"
    /\ Issue("POST", "util/unix-mv")
    /\ \E code \in {200, 500} :
         /\ dev' = [dev EXCEPT !.bulk = (code \in OkCodes /\ dev.csr) \/ dev.bulk]
         /\ loc' = [code |-> code]
    /\ pc' = "csr_download"
    /\ UNCHANGED <<mod, want, have, changes, reads, result>>

\* _download_file and the os.path.exists(dest) test after it.
csr_download_file ==
    /\ mod = "csr" /\ pc = "csr_download"
    /\ calls' = Append(calls, Call("DOWNLOAD", "bulk/name", "none", 0))
    /\ \E written \in (IF dev.bulk THEN BOOLEAN ELSE {FALSE}) :
         IF written \/ dev.dest = "present"
         THEN /\ dev' = [dev EXCEPT !.dest = "present"]
              /\ pc' = "csr_delete_csr"
              /\ UNCHANGED result
         ELSE Fail("Failed to save the csr file to local disk") /\ UNCHANGED dev
    /\ UNCHANGED <<mod, want, have, changes, reads, loc>>

\* _delete_csr: unix-rm; only a 404 is tested for, and the value returned
\* is dropped by execute().  The device may fail to remove the file.
csr_delete_csr ==
    /\ mod = "csr" /\ pc = "csr_delete_csr"
    /\ Issue("POST", "util/unix-rm")
    /\ \E code \in {200, 500}, gone \in BOOLEAN :
         /\ dev' = [dev EXCEPT !.bulk = dev.bulk /\ ~(gone /\ code \in OkCodes)]
         /\ loc' = [code |-> code]
    /\ pc' = "csr_file_exists"
    /\ UNCHANGED <<mod, want, have, changes, reads, result>>

\* file_exists: unix-ls, a POST that changes nothing.
csr_file_exists ==
    /\ mod = "csr" /\ pc = "csr_file_exists"
    /\ Issue("POST", "util/unix-ls")
    /\ IF dev.bulk
       THEN Fail("Failed to remove the remote csr file") /\ UNCHANGED loc
       ELSE pc' = "csr_return" /\ loc' = [changed |-> "true"] /\ UNCHANGED result
    /\ UNCHANGED <<mod, want, dev, have, changes, reads>>

\* remove(): the check-mode return, else remove_from_device (DELETE).  A
\* DELETE the device accepts may still leave the resource.
csr_remove ==
    /\ mod = "csr" /\ pc = "csr_remove"
    /\ IF want.check_mode
       THEN /\ pc' = "csr_return" /\ loc' = [changed |-> "true"]
            /\ UNCHANGED <<calls, dev, result>>
       ELSE /\ Issue("DELETE", "sys/crypto/csr/name")
            /\ \E code \in {200, 500}, gone \in BOOLEAN :
                 IF code \in OkCodes
                 THEN /\ dev' = [dev EXCEPT !.csr = ~gone]
                      /\ pc' = "csr_remove_exists"
                      /\ UNCHANGED <<loc, result>>
                 ELSE Fail("remote error") /\ UNCHANGED <<dev, loc>>
    /\ UNCHANGED <<mod, want, have, changes, reads>>

\* remove(): does it check exists() after remove_from_device.
CsrRemoveVerifies == TRUE

\* remove(): "if self.exists(): raise".
csr_remove_exists ==
    /\ mod = "csr" /\ pc = "csr_remove_exists"
    /\ IF CsrRemoveVerifies
       THEN /\ Get
            /\ \E code \in CsrExistsCodes :
                 IF code = 404
                 THEN pc' = "csr_return" /\ loc' = [changed |-> "true", verified |-> TRUE]
                      /\ UNCHANGED result
                 ELSE IF code \in OkCodes
                 THEN Fail("Failed to delete the resource.") /\ UNCHANGED loc
                 ELSE Fail("remote error") /\ UNCHANGED loc
       ELSE /\ pc' = "csr_return" /\ loc' = [changed |-> "true"]
            /\ UNCHANGED <<reads, result>>
    /\ UNCHANGED <<mod, want, dev, have, changes, calls>>

\* exec_module: result.update(dict(changed=changed)).
csr_exec_module_return ==
    /\ mod = "csr" /\ pc = "csr_return"
    /\ Exit(loc.changed)
    /\ UNCHANGED <<mod, want, dev, have, changes, calls, reads, loc>>

NextCsr ==
    \/ csr_exec_module
    \/ csr_exists
    \/ csr_create
    \/ csr_move_csr_to_download
    \/ csr_download_file
    \/ csr_delete_csr
    \/ csr_file_exists
    \/ csr_remove
    \/ csr_remove_exists
    \/ csr_exec_module_return

SpecCsr == InitCsr /\ [][NextCsr]_vars

\* ------------------------------------------------------------------------
\* bigip_vcmp_guest: parameters and the Difference
\* ------------------------------------------------------------------------

\* An optional value: <<>> is Python's None, <<v>> is the value v.
Nil == <<>>

Some(v) == <<v>>

IsNil(o) == o = <<>>

Val(o) == o[1]

\* The number of VLAN names (and of slots) a list can be built from.
MaxVlan == 2

\* The sequences over S without repetition, of every length.
RECURSIVE Arrangements(_)
Arrangements(S) ==
    {<<>>} \cup UNION { { <<x>> \o t : t \in Arrangements(S \ {x}) } : x \in S }

Range(q) == { q[i] : i \in 1..Len(q) }

\* list.sort() on a list of integers.
SortInts(q) == SortSeq(q, LAMBDA a, b : a < b)

\* A VLAN name: its partition ("" when the user gave a short name) and name.
VlanName(p, n) == [p |-> p, n |-> n]

\* common.fq_name: a short name is put under the partition.
fq_name(partition, x) == IF x.p = "" THEN [x EXCEPT !.p = partition] ELSE x

\* result.sort() on fully qualified names of one partition.
SortNames(q) == SortSeq(q, LAMBDA a, b : a.n < b.n)

\* ModuleParameters.vlans, with the sort left out.
WantVlansUnsorted(w) ==
    IF IsNil(w.vlans) THEN Nil
    ELSE Some([i \in 1..Len(Val(w.vlans)) |-> fq_name(w.partition, Val(w.vlans)[i])])

\* ModuleParameters.vlans: fq_name on every element, then sort.
WantVlans(w) ==
    IF IsNil(w.vlans) THEN Nil
    ELSE Some(SortNames([i \in 1..Len(Val(w.vlans)) |->
                            fq_name(w.partition, Val(w.vlans)[i])]))

\* ModuleParameters.allowed_slots: sorted.
WantAllowedSlots(w) ==
    IF IsNil(w.allowed_slots) THEN Nil ELSE Some(SortInts(Val(w.allowed_slots)))

\* ModuleParameters.state: present -> deployed, disabled -> configured.
WantState(st) ==
    IF st = "present" THEN "deployed"
    ELSE IF st \in {"configured", "disabled"} THEN "configured"
    ELSE st

\* A management address as the user writes it: the ip ("bad" when it is no
\* IP address) and what follows the slash: "" (nothing), a prefix length, a
\* netmask, or "x/y" (a second slash).
Addr(ip, mask) == [ip |-> ip, mask |-> mask]

\* ipaddress.ip_interface(...).with_prefixlen: the prefix length of a mask.
PrefixLen(mask) ==
    IF mask = "" THEN "32"
    ELSE IF mask = "255.255.255.0" THEN "24"
    ELSE mask

\* ModuleParameters.mgmt_address: [err, v]; err when ip_interface raises.
WantMgmtAddress(w) ==
    IF IsNil(w.mgmt_address) THEN [err |-> "", v |-> Nil]
    ELSE LET a == Val(w.mgmt_address) IN
         IF a.ip = "bad" \/ a.mask = "x/y"
         THEN [err |-> "The specified 'mgmt_address' is not a valid IP address.", v |-> Nil]
         ELSE [err |-> "", v |-> Some(Addr(a.ip, PrefixLen(a.mask)))]

\* ModuleParameters.mgmt_tuple: "attr" when the property raises
\* AttributeError (mgmt_address is None), "malformed" for more than two
\* parts, else the subnet part ("" for None).
MgmtTuple(w) ==
    IF IsNil(w.mgmt_address) THEN [kind |-> "attr", ip |-> "", subnet |-> ""]
    ELSE LET a == Val(w.mgmt_address) IN
         IF a.mask = "x/y" THEN [kind |-> "malformed", ip |-> a.ip, subnet |-> ""]
         ELSE [kind |-> "ok", ip |-> a.ip, subnet |-> a.mask]

\* ModuleParameters.mgmt_route: None, 'none' or a valid IP, else an error.
WantMgmtRoute(w) ==
    IF IsNil(w.mgmt_route) THEN [err |-> "", v |-> Nil]
    ELSE IF Val(w.mgmt_route) = "bad"
    THEN [err |-> "The specified 'mgmt_route' is not a valid IP address.", v |-> Nil]
    ELSE [err |-> "", v |-> w.mgmt_route]

\* ModuleParameters.initial_image: the image must be on the device.
WantInitialImage(w, images) ==
    IF IsNil(w.initial_image) THEN [err |-> "", v |-> Nil]
    ELSE IF Val(w.initial_image) \in images THEN [err |-> "", v |-> w.initial_image]
    ELSE [err |-> "The specified 'initial_image' does not exist on the remote device.",
          v |-> Nil]

\* Difference.__default that returns the desired value whatever is observed.
DiffDefaultAlways(wv, hv) == wv

\* Difference.__default: the desired value when it differs from the observed
\* one, else None.  A desired None that differs is returned as None.
DiffDefault(wv, hv) == IF wv # hv THEN wv ELSE Nil

\* Difference.allowed_slots: compared as sets.
DiffAllowedSlots(w, h) ==
    LET ws == WantAllowedSlots(w) IN
    IF IsNil(ws) THEN Nil
    ELSE IF IsNil(h.allowed_slots) THEN ws
    ELSE IF Range(Val(ws)) # Range(Val(h.allowed_slots)) THEN ws ELSE Nil

\* Difference.mgmt_address without the test of the subnet.
DiffMgmtAddressAnySubnet(w, h) ==
    LET wa == WantMgmtAddress(w) IN
    IF wa.err # "" THEN wa
    ELSE [err |-> "", v |-> IF wa.v # h.mgmt_address THEN wa.v ELSE Nil]

\* Difference.mgmt_address: [err, v].  With mgmt_address None the property
\* raises AttributeError and compare() falls back to __default.
DiffMgmtAddress(w, h) ==
    LET t == MgmtTuple(w)
        wa == WantMgmtAddress(w) IN
    IF t.kind = "attr" THEN [err |-> "", v |-> DiffDefault(wa.v, h.mgmt_address)]
    ELSE IF t.kind = "malformed"
    THEN [err |-> "The provided mgmt_address is malformed.", v |-> Nil]
    ELSE IF t.subnet = ""
    THEN [err |-> "A subnet must be specified when changing the mgmt_address.", v |-> Nil]
    ELSE IF wa.err # "" THEN wa
    ELSE [err |-> "", v |-> IF wa.v # h.mgmt_address THEN wa.v ELSE Nil]

\* Parameters.updatables, in order (initial_hotfix is handled like
\* initial_image, number_of_slots and min_number_of_slots like mgmt_network).
VcmpUpdatables ==
    <<"vlans", "mgmt_network", "mgmt_address", "initial_image", "mgmt_route",
      "state", "cores_per_slot", "allowed_slots">>

\* Difference.compare(k): [err, v].
VcmpCompare(k, w, h, images) ==
    IF k = "vlans" THEN [err |-> "", v |-> DiffDefault(WantVlans(w), h.vlans)]
    ELSE IF k = "mgmt_network"
    THEN [err |-> "", v |-> DiffDefault(w.mgmt_network, h.mgmt_network)]
    ELSE IF k = "mgmt_address" THEN DiffMgmtAddress(w, h)
    ELSE IF k = "initial_image"
    THEN LET wi == WantInitialImage(w, images) IN
         IF wi.err # "" THEN wi
         ELSE [err |-> "", v |-> DiffDefault(wi.v, h.initial_image)]
    ELSE IF k = "mgmt_route"
    THEN LET wr == WantMgmtRoute(w) IN
         IF wr.err # "" THEN wr
         ELSE [err |-> "", v |-> DiffDefault(wr.v, h.mgmt_route)]
    ELSE IF k = "state"
    THEN [err |-> "", v |-> DiffDefault(Some(WantState(w.state)), Some(h.state))]
    ELSE IF k = "cores_per_slot"
    THEN [err |-> "", v |-> DiffDefault(w.cores_per_slot, h.cores_per_slot)]
    ELSE [err |-> "", v |-> DiffAllowedSlots(w, h)]

\* The first error of a sequence of [err, v] results, "" when there is none.
RECURSIVE FirstErr(_)
FirstErr(rs) ==
    IF rs = <<>> THEN ""
    ELSE IF rs[1].err # "" THEN rs[1].err
    ELSE FirstErr(Tail(rs))

\* ModuleManager._update_changed_options: [err, ch]; ch maps every updatable
\* whose comparison is not None to the value compared.
VcmpUpdateChangedOptions(w, h, images) ==
    LET rs == [i \in 1..Len(VcmpUpdatables) |->
                  VcmpCompare(VcmpUpdatables[i], w, h, images)]
        e == FirstErr(rs)
        ks == { i \in 1..Len(VcmpUpdatables) : ~IsNil(rs[i].v) } IN
    IF e # "" THEN [err |-> e, ch |-> <<>>]
    ELSE [err |-> "",
          ch |-> [k \in { VcmpUpdatables[i] : i \in ks } |->
                    Val(rs[CHOOSE i \in ks : VcmpUpdatables[i] = k].v)]]

\* ------------------------------------------------------------------------
\* bigip_vcmp_guest: the run
\* ------------------------------------------------------------------------

\* How many of the optional parameters a run is given at once.
MaxGiven == 1

\* The number of virtual disks on the device.
MaxDisks == 2

\* wait_for_*: "while nops < 3".
StableChecks == 3

VcmpOptional ==
    {"vlans", "mgmt_network", "mgmt_address", "initial_image", "mgmt_route",
     "cores_per_slot", "allowed_slots"}

\* The lists a run is given or finds on the device: two names, both orders.
UserLists == {<<1, 2>>, <<2, 1>>}

ShortNames(q) == [i \in 1..Len(q) |-> VlanName("", q[i])]

FullNames(q) == [i \in 1..Len(q) |-> VlanName("Common", q[i])]

VcmpAddrs ==
    {Addr("10.0.0.1", ""), Addr("10.0.0.1", "24"), Addr("10.0.0.1", "255.255.255.0"),
     Addr("bad", "24")}

\* The values each parameter is drawn from, None included.
VcmpParamValues ==
    [vlans          |-> {Nil} \cup { Some(ShortNames(q)) : q \in UserLists },
     mgmt_network   |-> {Nil, Some("isolated")},
     mgmt_address   |-> {Nil} \cup { Some(a) : a \in VcmpAddrs },
     initial_image  |-> {Nil, Some("img1"), Some("nope")},
     mgmt_route     |-> {Nil, Some("10.0.0.254"), Some("bad")},
     cores_per_slot |-> {Nil, Some(1), Some(2)},
     allowed_slots  |-> {Nil} \cup { Some(q) : q \in UserLists }]

\* required_if: mgmt_network bridged needs mgmt_address (bridged is never
\* given here).  delete_virtual_disk is read by remove() alone.
VcmpWants ==
    { w \in [state : {"configured", "disabled", "provisioned", "present", "absent"},
             partition : {"Common"},
             vlans : VcmpParamValues.vlans,
             mgmt_network : VcmpParamValues.mgmt_network,
             mgmt_address : VcmpParamValues.mgmt_address,
             initial_image : VcmpParamValues.initial_image,
             mgmt_route : VcmpParamValues.mgmt_route,
             cores_per_slot : VcmpParamValues.cores_per_slot,
             allowed_slots : VcmpParamValues.allowed_slots,
             delete_virtual_disk : BOOLEAN,
             check_mode : BOOLEAN] :
        /\ Cardinality({ k \in VcmpOptional : ~IsNil(w[k]) }) <= MaxGiven
        /\ w.delete_virtual_disk => w.state = "absent"
        /\ w.state = "absent" => \A k \in VcmpOptional : IsNil(w[k]) }

\* The guests a device can hold: one with sorted lists, one with the same
\* lists in another order.
VcmpGuests ==
    { [vlans |-> Some(FullNames(q)), mgmt_network |-> Some("bridged"),
       mgmt_address |-> Some(Addr("10.0.0.1", "24")), initial_image |-> Some("img1"),
       mgmt_route |-> Some("10.0.0.254"), cores_per_slot |-> Some(1),
       allowed_slots |-> Some(q), state |-> st] :
        q \in UserLists,
        st \in {"configured", "provisioned", "deployed"} }

NoGuest ==
    [vlans |-> Nil, mgmt_network |-> Nil, mgmt_address |-> Nil, initial_image |-> Nil,
     mgmt_route |-> Nil, cores_per_slot |-> Nil, allowed_slots |-> Nil,
     state |-> "configured"]

\* The virtual disks of the device: each belongs to the guest or to another.
DiskLists == UNION { [1..n -> {"guest", "other"}] : n \in 0..MaxDisks }

\* exists: the guest is on the device; g: its attributes; vm: whether the
\* guest has reached its requested state, is on the way, or never will;
\* images: the software images; disks and the positions deleted so far.
VcmpDevs ==
    { d \in [exists : BOOLEAN, g : VcmpGuests \cup {NoGuest},
             vm : {"reached", "pending", "stuck"}, images : {{"img1"}},
             disks : DiskLists, deleted : {{}}] :
        /\ d.exists <=> d.g # NoGuest
        /\ ~d.exists => d.vm = "reached" }

InitVcmp ==
    /\ mod = "vcmp"
    /\ pc = "vcmp_exists"
    /\ want \in VcmpWants
    /\ dev \in VcmpDevs
    /\ (want.delete_virtual_disk /\ dev.exists) \/ dev.disks = <<>>
    /\ have = Nil
    /\ changes = <<>>
    /\ calls = <<>>
    /\ reads = 0
    /\ loc = NoLoc
    /\ result = NoResult

\* The code of a GET on the guest: found, not found, or an error.
VcmpExistsCodes == {IF dev.exists THEN 200 ELSE 404, 500}

\* exec_module, present()/absent(): exists().
vcmp_exists ==
    /\ mod = "vcmp" /\ pc = "vcmp_exists"
    /\ Get
    /\ \E code \in VcmpExistsCodes :
         IF code = 404
         THEN IF want.state = "absent"
              THEN pc' = "vcmp_return" /\ loc' = [changed |-> "false"] /\ UNCHANGED result
              ELSE pc' = "vcmp_create" /\ UNCHANGED <<loc, result>>
         ELSE IF code \in OkCodes
         THEN IF want.state = "absent"
              THEN pc' = "vcmp_remove" /\ UNCHANGED <<loc, result>>
              ELSE pc' = "vcmp_update" /\ UNCHANGED <<loc, result>>
         ELSE Fail("remote error") /\ UNCHANGED loc
    /\ UNCHANGED <<mod, want, dev, have, changes, calls>>

\* update(): read_current_from_device.
vcmp_update ==
    /\ mod = "vcmp" /\ pc = "vcmp_update"
    /\ Get
    /\ \E code \in {200, 500} :
         IF code \in OkCodes
         THEN have' = dev.g /\ pc' = "vcmp_should_update" /\ UNCHANGED result
         ELSE Fail("remote error") /\ UNCHANGED have
    /\ UNCHANGED <<mod, want, dev, changes, calls, loc>>

\* A lifecycle call after an update that always configures the guest.
ToConfigured == [target |-> "configured", next |-> "vcmp_return", nops |-> 0,
                 slept |-> 0, changed |-> "true"]

\* The lifecycle call that follows a create or an update: provision(),
\* deploy() or configure(), by self.want.state.
ToTarget == [target |-> WantState(want.state), next |-> "vcmp_return", nops |-> 0,
             slept |-> 0, changed |-> "true"]

\* update(): should_update, the check-mode return, "if
\* self.changes.cores_per_slot: if not self.is_configured()".
vcmp_should_update ==
    /\ mod = "vcmp" /\ pc = "vcmp_should_update"
    /\ LET d == VcmpUpdateChangedOptions(want, have, dev.images) IN
       /\ reads' = IF ~IsNil(want.initial_image) /\ reads < MaxReads
                   THEN reads + 1 ELSE reads
       /\ IF d.err # "" THEN Fail(d.err) /\ UNCHANGED <<changes, loc>>
          ELSE IF DOMAIN d.ch = {}
          THEN /\ pc' = "vcmp_return" /\ loc' = [changed |-> "false"]
               /\ UNCHANGED <<changes, result>>
          ELSE /\ changes' = d.ch
               /\ UNCHANGED result
               /\ IF want.check_mode
                  THEN pc' = "vcmp_return" /\ loc' = [changed |-> "true"]
                  ELSE IF "cores_per_slot" \in DOMAIN d.ch
                  THEN pc' = "vcmp_cores_is_configured" /\ UNCHANGED loc
                  ELSE pc' = "vcmp_update_on_device" /\ UNCHANGED loc
    /\ UNCHANGED <<mod, want, dev, have, calls>>

\* The device on a status read: a guest on its way may have arrived.
Settle(d) == IF d.vm = "pending" THEN {d, [d EXCEPT !.vm = "reached"]} ELSE {d}

\* is_configured / is_provisioned / is_deployed that answers yes at once.
IsInStateAlways(target, d) == TRUE

\* is_configured / is_provisioned / is_deployed on device d: the stats are
\* gone (404) once a configured guest is off; requestedState and vmStatus
\* match once a provisioned or deployed guest has arrived.
IsInState(target, d) == d.g.state = target /\ d.vm = "reached"

\* update(): "if not self.is_configured(): self.configure()".
vcmp_cores_is_configured ==
    /\ mod = "vcmp" /\ pc = "vcmp_cores_is_configured"
    /\ Get
    /\ \E d \in Settle(dev), code \in {200, 500} :
         /\ dev' = d
         /\ IF code \notin OkCodes THEN Fail("remote error") /\ UNCHANGED loc
            ELSE IF IsInState("configured", d)
            THEN pc' = "vcmp_update_on_device" /\ UNCHANGED <<loc, result>>
            ELSE /\ pc' = "vcmp_transition"
                 /\ loc' = [target |-> "configured", next |-> "vcmp_update_on_device",
                            nops |-> 0, slept |-> 0, changed |-> "true"]
                 /\ UNCHANGED result
    /\ UNCHANGED <<mod, want, have, changes, calls>>

\* configure() / provision() / deploy(): "if self.is_X(): return False".
vcmp_transition ==
    /\ mod = "vcmp" /\ pc = "vcmp_transition"
    /\ Get
    /\ \E d \in Settle(dev), code \in {200, 500} :
         /\ dev' = d
         /\ IF code \notin OkCodes THEN Fail("remote error")
            ELSE /\ pc' = IF IsInState(loc.target, d) THEN loc.next ELSE "vcmp_on_device"
                 /\ UNCHANGED result
    /\ UNCHANGED <<mod, want, have, changes, calls, loc>>

\* configure_on_device / provision_on_device / deploy_on_device: the PATCH
\* of the state.  The guest then heads for the state, or never gets there.
vcmp_on_device ==
    /\ mod = "vcmp" /\ pc = "vcmp_on_device"
    /\ calls' = Append(calls, CallP("PATCH", "vcmp/guest/name", [state |-> loc.target]))
    /\ \E code \in {200, 500} :
         IF code \in OkCodes
         THEN /\ \E v \in {"pending", "stuck"} :
                   dev' = [dev EXCEPT !.g.state = loc.target, !.vm = v]
              /\ pc' = "vcmp_wait_for"
              /\ UNCHANGED result
         ELSE Fail("remote error") /\ UNCHANGED dev
    /\ UNCHANGED <<mod, want, have, changes, reads, loc>>

\* wait_for_configured / wait_for_provisioned / wait_for_deployed: one
\* iteration of "while nops < 3", or the return once nops is 3.  slept is
\* the parity of the time.sleep(1) calls of the loop.
vcmp_wait_for ==
    /\ mod = "vcmp" /\ pc = "vcmp_wait_for"
    /\ IF loc.nops < StableChecks
       THEN /\ Get
            /\ \E d \in Settle(dev), code \in {200, 500} :
                 /\ dev' = d
                 /\ IF code \notin OkCodes THEN Fail("remote error") /\ UNCHANGED loc
                    ELSE /\ loc' = [loc EXCEPT !.nops =
                                      IF IsInState(loc.target, d) THEN @ + 1 ELSE @,
                                                !.slept = 1 - @]
                         /\ UNCHANGED <<pc, result>>
       ELSE /\ pc' = loc.next
            /\ UNCHANGED <<dev, loc, reads, result>>
    /\ UNCHANGED <<mod, want, have, changes, calls>>

\* The device after a POST or PATCH with payload p on guest g.
ApplyPayload(g, p) ==
    [k \in DOMAIN g |-> IF k \in DOMAIN p
                        THEN (IF k = "state" THEN p[k] ELSE Some(p[k]))
                        ELSE g[k]]

\* update_on_device: PATCH of self.changes.api_params(), then the lifecycle
\* call for self.want.state.
vcmp_update_on_device ==
    /\ mod = "vcmp" /\ pc = "vcmp_update_on_device"
    /\ calls' = Append(calls, CallP("PATCH", "vcmp/guest/name", changes))
    /\ \E code \in {200, 500} :
         IF code \in OkCodes
         THEN /\ \E v \in (IF "state" \in DOMAIN changes THEN {"pending", "stuck"}
                           ELSE {dev.vm}) :
                   dev' = [dev EXCEPT !.g = ApplyPayload(dev.g, changes), !.vm = v]
              /\ pc' = "vcmp_transition"
              /\ loc' = ToTarget
              /\ UNCHANGED result
         ELSE Fail("remote error") /\ UNCHANGED <<dev, loc>>
    /\ UNCHANGED <<mod, want, have, changes, reads>>

\* Parameters.returnables without name, in order.
VcmpReturnables ==
    <<"vlans", "mgmt_network", "mgmt_address", "initial_image", "mgmt_route",
      "cores_per_slot", "allowed_slots">>

\* getattr(self.want, key) for a returnable: [err, v].
VcmpWantAttr(k, w, images) ==
    IF k = "vlans" THEN [err |-> "", v |-> WantVlans(w)]
    ELSE IF k = "mgmt_address" THEN WantMgmtAddress(w)
    ELSE IF k = "initial_image" THEN WantInitialImage(w, images)
    ELSE IF k = "mgmt_route" THEN WantMgmtRoute(w)
    ELSE IF k = "allowed_slots" THEN [err |-> "", v |-> WantAllowedSlots(w)]
    ELSE [err |-> "", v |-> w[k]]

\* ModuleManager._set_changed_options: [err, ch]; every returnable of
\* self.want that is not None.
VcmpSetChangedOptions(w, images) ==
    LET rs == [i \in 1..Len(VcmpReturnables) |->
                  VcmpWantAttr(VcmpReturnables[i], w, images)]
        e == FirstErr(rs)
        ks == { i \in 1..Len(VcmpReturnables) : ~IsNil(rs[i].v) } IN
    IF e # "" THEN [err |-> e, ch |-> <<>>]
    ELSE [err |-> "",
          ch |-> [k \in { VcmpReturnables[i] : i \in ks } |->
                    Val(rs[CHOOSE i \in ks : VcmpReturnables[i] = k].v)]]

\* create(): _set_changed_options, the check-mode return, the default mask
\* put into self.want, create_on_device (POST), then the lifecycle call.
\* self.want.mgmt_tuple.subnet raises AttributeError when mgmt_address is
\* None.  A new guest is in the configured state.
vcmp_create ==
    /\ mod = "vcmp" /\ pc = "vcmp_create"
    /\ LET d == VcmpSetChangedOptions(want, dev.images)
           t == MgmtTuple(want) IN
       /\ reads' = IF ~IsNil(want.initial_image) /\ reads < MaxReads
                   THEN reads + 1 ELSE reads
       /\ IF d.err # ""
          THEN Fail(d.err) /\ UNCHANGED <<changes, want, dev, calls, loc>>
          ELSE /\ changes' = d.ch
               /\ IF want.check_mode
                  THEN /\ pc' = "vcmp_return" /\ loc' = [changed |-> "true"]
                       /\ UNCHANGED <<want, dev, calls, result>>
                  ELSE IF t.kind = "attr"
                  THEN Crash("AttributeError") /\ UNCHANGED <<want, dev, calls, loc>>
                  ELSE IF t.kind = "malformed"
                  THEN Fail("The provided mgmt_address is malformed.")
                       /\ UNCHANGED <<want, dev, calls, loc>>
                  ELSE /\ want' = IF t.subnet = ""
                                  THEN [want EXCEPT !.mgmt_address =
                                          Some(Addr(t.ip, "255.255.255.0"))]
                                  ELSE want
                       /\ calls' = Append(calls, CallP("POST", "vcmp/guest", d.ch))
                       /\ \E code \in {200, 500} :
                            IF code \in OkCodes
                            THEN /\ dev' = [dev EXCEPT !.exists = TRUE,
                                               !.g = ApplyPayload(NoGuest, d.ch),
                                               !.vm = "reached"]
                                 /\ pc' = "vcmp_transition"
                                 /\ loc' = ToTarget
                                 /\ UNCHANGED result
                            ELSE Fail("remote error") /\ UNCHANGED <<dev, loc>>
    /\ UNCHANGED <<mod, have>>

\* remove(): the check-mode return, read_current_from_device when the disk
\* is to go, remove_from_device (DELETE).  A DELETE the device accepts may
\* still leave the guest.
vcmp_remove ==
    /\ mod = "vcmp" /\ pc = "vcmp_remove"
    /\ IF want.check_mode
       THEN /\ pc' = "vcmp_return" /\ loc' = [changed |-> "true"]
            /\ UNCHANGED <<calls, dev, have, reads, result>>
       ELSE /\ IF want.delete_virtual_disk THEN Get ELSE UNCHANGED reads
            /\ \E rcode \in (IF want.delete_virtual_disk THEN {200, 500} ELSE {200}) :
                 IF rcode \notin OkCodes
                 THEN Fail("remote error") /\ UNCHANGED <<calls, dev, have, loc>>
                 ELSE /\ have' = IF want.delete_virtual_disk THEN dev.g ELSE have
                      /\ Issue("DELETE", "vcmp/guest/name")
                      /\ \E code \in {200, 500}, gone \in BOOLEAN :
                           IF code \in OkCodes
                           THEN /\ dev' = [dev EXCEPT !.exists = ~gone]
                                /\ pc' = "vcmp_remove_exists"
                                /\ UNCHANGED <<loc, result>>
                           ELSE Fail("remote error") /\ UNCHANGED <<dev, loc>>
    /\ UNCHANGED <<mod, want, changes>>

\* remove(): does it check exists() after remove_from_device.
VcmpRemoveVerifies == TRUE

\* remove(): "if self.exists(): raise", then remove_virtual_disk() when
\* asked for.
vcmp_remove_exists ==
    /\ mod = "vcmp" /\ pc = "vcmp_remove_exists"
    /\ IF VcmpRemoveVerifies
       THEN /\ Get
            /\ \E code \in VcmpExistsCodes :
                 IF code = 404
                 THEN /\ loc' = [changed |-> "true", verified |-> TRUE]
                      /\ pc' = IF want.delete_virtual_disk THEN "vcmp_virtual_disk_exists"
                               ELSE "vcmp_return"
                      /\ UNCHANGED result
                 ELSE IF code \in OkCodes
                 THEN Fail("Failed to delete the resource.") /\ UNCHANGED loc
                 ELSE Fail("remote error") /\ UNCHANGED loc
       ELSE /\ loc' = [changed |-> "true"]
            /\ pc' = IF want.delete_virtual_disk THEN "vcmp_virtual_disk_exists"
                     ELSE "vcmp_return"
            /\ UNCHANGED <<reads, result>>
    /\ UNCHANGED <<mod, want, dev, have, changes, calls>>

\* virtual_disk_exists: the loop returns on its first item; a collection
\* without 'items' makes response['items'] raise TypeError.
vcmp_virtual_disk_exists ==
    /\ mod = "vcmp" /\ pc = "vcmp_virtual_disk_exists"
    /\ Get
    /\ \E code \in {200, 500} :
         IF code \notin OkCodes THEN Fail("remote error") /\ UNCHANGED loc
         ELSE IF dev.disks = <<>> THEN Crash("TypeError") /\ UNCHANGED loc
         ELSE IF dev.disks[1] = "guest"
         THEN pc' = "vcmp_remove_virtual_disk" /\ loc' = [loc EXCEPT !.changed = "true"]
              /\ UNCHANGED result
         ELSE pc' = "vcmp_return" /\ UNCHANGED <<loc, result>>
    /\ UNCHANGED <<mod, want, dev, have, changes, calls>>

\* remove_virtual_disk_from_device: the GET of the disks and the DELETE of
\* every disk whose name starts with the guest's virtual disk name.
vcmp_remove_virtual_disk_from_device ==
    /\ mod = "vcmp" /\ pc = "vcmp_remove_virtual_disk"
    /\ IF "i" \notin DOMAIN loc
       THEN /\ Get
            /\ \E code \in {200, 500} :
                 IF code \notin OkCodes THEN Fail("remote error") /\ UNCHANGED loc
                 ELSE pc' = pc /\ loc' = [loc EXCEPT !.changed = "true"] @@ [i |-> 1]
                      /\ UNCHANGED result
            /\ UNCHANGED <<dev, calls>>
       ELSE IF loc.i > Len(dev.disks)
       THEN pc' = "vcmp_return" /\ UNCHANGED <<dev, calls, loc, reads, result>>
       ELSE IF dev.disks[loc.i] # "guest"
       THEN loc' = [loc EXCEPT !.i = @ + 1] /\ UNCHANGED <<pc, dev, calls, reads, result>>
       ELSE /\ calls' = Append(calls, CallP("DELETE", "vcmp/virtual-disk", loc.i))
            /\ UNCHANGED reads
            /\ \E code \in {200, 500} :
                 IF code \in OkCodes
                 THEN /\ dev' = [dev EXCEPT !.deleted = @ \cup {loc.i}]
                      /\ loc' = [loc EXCEPT !.i = @ + 1]
                      /\ UNCHANGED <<pc, result>>
                 ELSE Fail("remote error") /\ UNCHANGED <<dev, loc>>
    /\ UNCHANGED <<mod, want, have, changes>>

\* exec_module: result.update(dict(changed=changed)).
vcmp_exec_module_return ==
    /\ mod = "vcmp" /\ pc = "vcmp_return"
    /\ Exit(loc.changed)
    /\ UNCHANGED <<mod, want, dev, have, changes, calls, reads, loc>>

NextVcmp ==
    \/ vcmp_exists
    \/ vcmp_update
    \/ vcmp_should_update
    \/ vcmp_cores_is_configured
    \/ vcmp_transition
    \/ vcmp_on_device
    \/ vcmp_wait_for
    \/ vcmp_update_on_device
    \/ vcmp_create
    \/ vcmp_remove
    \/ vcmp_remove_exists
    \/ vcmp_virtual_disk_exists
    \/ vcmp_remove_virtual_disk_from_device
    \/ vcmp_exec_module_return

SpecVcmp == InitVcmp /\ [][NextVcmp]_vars

\* ------------------------------------------------------------------------
\* bigiq_device_discovery: parameters and the Difference
\* ------------------------------------------------------------------------

\* ModuleParameters.module_map.
ModuleMap(m) ==
    IF m = "ltm" THEN "adc_core"
    ELSE IF m = "afm" THEN "firewall"
    ELSE IF m = "websafe" THEN "fps"
    ELSE IF m = "apm" THEN "access"
    ELSE m

\* str.upper() on the conflict policies.
Upper(x) ==
    IF x = "use_bigip" THEN "USE_BIGIP"
    ELSE IF x = "use_bigiq" THEN "USE_BIGIQ"
    ELSE IF x = "keep_version" THEN "KEEP_VERSION"
    ELSE x

\* ModuleParameters.access_conflict_policy.
WantAccessConflictPolicy(w) ==
    IF IsNil(w.access_conflict_policy) THEN Nil
    ELSE Some(Upper(w.device_conflict_policy))

\* The mapping loop at the end of ModuleParameters.modules.
MapModules(q) == [i \in 1..Len(q) |-> ModuleMap(q[i])]

\* ModuleParameters.modules with the mapping alone.
WantModulesUnchecked(w) ==
    IF IsNil(w.modules) THEN [err |-> "", v |-> Nil]
    ELSE [err |-> "", v |-> Some(MapModules(Val(w.modules)))]

\* ModuleParameters.modules: [err, v]; the checks, then the mapping.
WantModules(w) ==
    IF IsNil(w.modules) THEN [err |-> "", v |-> Nil]
    ELSE LET ms == Range(Val(w.modules)) IN
         IF "security_shared" \notin ms /\ "afm" \in ms
         THEN [err |-> "Module 'shared_security' required for 'afm' module.", v |-> Nil]
         ELSE IF "security_shared" \notin ms /\ "asm" \in ms
         THEN [err |-> "Module 'shared_security' required for 'asm' module.", v |-> Nil]
         ELSE IF "ltm" \notin ms
         THEN [err |-> "LTM module must be specified for device discovery and import.",
               v |-> Nil]
         ELSE IF "apm" \in ms /\ (IsNil(w.access_group_name)
                                   \/ IsNil(WantAccessConflictPolicy(w)))
         THEN [err |-> "When importing APM 'access_group_name' and 'access_conflict_policy' must be specified.",
               v |-> Nil]
         ELSE [err |-> "", v |-> Some(MapModules(Val(w.modules)))]

\* ModuleParameters.apm_properties.
WantApmProperties(w) ==
    IF IsNil(w.modules) THEN Nil
    ELSE IF "apm" \in Range(Val(w.modules))
    THEN Some([conflict_resolution |-> WantAccessConflictPolicy(w),
               access_group_name |-> w.access_group_name,
               import_shared |-> TRUE])
    ELSE Nil

\* Difference.modules: [err, v].
BigiqDiffModules(w, h) ==
    LET wm == WantModules(w) IN
    IF wm.err # "" THEN wm
    ELSE IF IsNil(wm.v) THEN [err |-> "", v |-> Nil]
    ELSE IF IsNil(h.modules) THEN wm
    ELSE IF Range(Val(wm.v)) \subseteq Val(h.modules) THEN [err |-> "", v |-> Nil]
    ELSE wm

\* Difference.access_group_name that accepts every name.
NeverRaises(w, h) == FALSE

\* Difference.access_group_name: does the comparison raise.
AccessGroupNameRaises(w, h) == w.access_group_name # h.access_group_name

\* ModuleManager._update_changed_options: [err, ch].  Of the updatables
\* (modules, access_group_name, apm_properties, module_list) only modules
\* can be flagged; apm_properties is added to a non-empty change set.
BigiqUpdateChangedOptions(w, h) ==
    LET dm == BigiqDiffModules(w, h) IN
    IF dm.err # "" THEN [err |-> dm.err, ch |-> <<>>]
    ELSE IF AccessGroupNameRaises(w, h)
    THEN [err |-> "Access group name cannot be modified once it is set.", ch |-> <<>>]
    ELSE IF IsNil(dm.v) THEN [err |-> "", ch |-> <<>>]
    ELSE [err |-> "",
          ch |-> [modules |-> Val(dm.v), apm_properties |-> WantApmProperties(w)]]

\* ModuleManager._set_changed_options: the returnables of self.want that are
\* not None (credentials, port and ha_name are left out).
BigiqSetChangedOptions(w) ==
    LET wm == WantModules(w)
        ks == {"device_address", "conflict_policy", "device_conflict_policy"}
              \cup (IF IsNil(wm.v) THEN {} ELSE {"modules"})
              \cup (IF IsNil(w.access_group_name) THEN {} ELSE {"access_group_name"})
              \cup (IF IsNil(WantAccessConflictPolicy(w)) THEN {}
                    ELSE {"access_conflict_policy"})
              \cup (IF IsNil(WantApmProperties(w)) THEN {} ELSE {"apm_properties"})
        value(k) ==
            IF k = "device_address" THEN w.device_address
            ELSE IF k = "conflict_policy" THEN Upper(w.conflict_policy)
            ELSE IF k = "device_conflict_policy" THEN Upper(w.device_conflict_policy)
            ELSE IF k = "modules" THEN Val(wm.v)
            ELSE IF k = "access_group_name" THEN Val(w.access_group_name)
            ELSE IF k = "access_conflict_policy" THEN Val(WantAccessConflictPolicy(w))
            ELSE WantApmProperties(w) IN
    IF wm.err # "" THEN [err |-> wm.err, ch |-> <<>>]
    ELSE [err |-> "", ch |-> [k \in ks |-> value(k)]]

\* ------------------------------------------------------------------------
\* bigiq_device_discovery: the run
\* ------------------------------------------------------------------------

\* The module lists a run is given.
BigiqLists ==
    {<<"ltm">>, <<"ltm", "security_shared", "asm">>, <<"asm", "security_shared", "ltm">>,
     <<"asm", "ltm">>, <<"afm", "ltm">>, <<"security_shared">>, <<"ltm", "apm">>,
     <<"apm", "ltm">>}

\* An absent state reads no other option.
BigiqWants ==
    { w \in [state : {"present", "absent"}, force : BOOLEAN, check_mode : BOOLEAN,
             device_address : {"10.0.0.9", "bad"},
             modules : {Nil} \cup { Some(q) : q \in BigiqLists },
             access_group_name : {Nil, Some("g1")},
             access_conflict_policy : {Nil, Some("keep_version")},
             conflict_policy : {"use_bigiq"},
             device_conflict_policy : {"use_bigiq", "use_bigip"},
             stats_enabled : BOOLEAN] :
        /\ (w.state = "absent" \/ w.device_address = "bad") =>
              /\ ~w.force /\ IsNil(w.modules) /\ IsNil(w.access_group_name)
              /\ IsNil(w.access_conflict_policy) /\ ~w.stats_enabled
              /\ w.device_conflict_policy = "use_bigiq"
        /\ IsNil(w.access_conflict_policy) => w.device_conflict_policy = "use_bigiq" }

\* managed: the device is known to BIG-IQ; v61: BIG-IQ is 6.1.0 or above;
\* mods: the modules discovered and imported (None when the device reports
\* no properties); agn: the access group name; old_tasks: a discovery and an
\* import task of the device exist; task: the task being polled.
BigiqDevs ==
    { d \in [managed : BOOLEAN, v61 : BOOLEAN,
             mods : {Nil, Some({"adc_core"}),
                     Some({"adc_core", "asm", "security_shared"})},
             agn : {Nil, Some("g1"), Some("g2")},
             old_tasks : BOOLEAN,
             task : {"none"}] :
        /\ ~d.managed => IsNil(d.mods) /\ IsNil(d.agn) /\ ~d.old_tasks
        /\ ~d.v61 => ~d.managed
        /\ IsNil(d.mods) => IsNil(d.agn) }

InitBigiq ==
    /\ mod = "bigiq"
    /\ pc = "bigiq_exec_module"
    /\ want \in BigiqWants
    /\ dev \in BigiqDevs
    /\ have = Nil
    /\ changes = <<>>
    /\ calls = <<>>
    /\ reads = 0
    /\ loc = NoLoc
    /\ result = NoResult

\* exec_module: check_bigiq_version, then exists(), which reads
\* self.want.device_address before its GET.
bigiq_exec_module ==
    /\ mod = "bigiq" /\ pc = "bigiq_exec_module"
    /\ Get
    /\ IF ~dev.v61 THEN Fail("Module supports only BIGIQ version 6.1.x or higher.")
       ELSE IF want.device_address = "bad"
       THEN Fail("Provided device address is not a valid IP.")
       ELSE pc' = "bigiq_exists" /\ UNCHANGED result
    /\ UNCHANGED <<mod, want, dev, have, changes, calls, loc>>

\* exists(): the GET on machineid-resolver.
bigiq_exists ==
    /\ mod = "bigiq" /\ pc = "bigiq_exists"
    /\ Get
    /\ \E code \in {200, 500} :
         IF code \notin OkCodes THEN Fail("remote error") /\ UNCHANGED loc
         ELSE IF dev.managed
         THEN pc' = (IF want.state = "present" THEN "bigiq_update" ELSE "bigiq_remove")
              /\ UNCHANGED <<loc, result>>
         ELSE IF want.state = "present"
         THEN pc' = "bigiq_create" /\ UNCHANGED <<loc, result>>
         ELSE pc' = "bigiq_return" /\ loc' = [changed |-> "false"] /\ UNCHANGED result
    /\ UNCHANGED <<mod, want, dev, have, changes, calls>>

\* ApiParameters over the device's reply: modules, access_group_name.
BigiqHave(d) == [modules |-> d.mods, access_group_name |-> d.agn]

\* An order of the calls that enables statistics before the import.
BigiqAfterStatsFirst(step) ==
    IF step = "trust" THEN "bigiq_set_device_id"
    ELSE IF step = "discovery" THEN "bigiq_stats"
    ELSE IF step = "stats" THEN "bigiq_import"
    ELSE IF step = "remove_authority" THEN "bigiq_remove_trust"
    ELSE "bigiq_return"

\* The step after a task has FINISHED.
BigiqAfter(step) ==
    IF step = "trust" THEN "bigiq_set_device_id"
    ELSE IF step = "discovery" THEN "bigiq_import"
    ELSE IF step = "import"
    THEN (IF want.stats_enabled THEN "bigiq_stats" ELSE "bigiq_return")
    ELSE IF step = "remove_authority" THEN "bigiq_remove_trust"
    ELSE "bigiq_return"

\* update(): read_current_from_device, should_update, force, the check-mode
\* return, _set_changed_options under force.
bigiq_update ==
    /\ mod = "bigiq" /\ pc = "bigiq_update"
    /\ Get
    /\ \E code \in {200, 500} :
         IF code \notin OkCodes THEN Fail("remote error") /\ UNCHANGED <<have, changes, loc>>
         ELSE LET h == BigiqHave(dev)
                  d == BigiqUpdateChangedOptions(want, h)
                  f == BigiqSetChangedOptions(want) IN
              /\ have' = h
              /\ IF d.err # "" THEN Fail(d.err) /\ UNCHANGED <<changes, loc>>
                 ELSE IF DOMAIN d.ch = {} /\ ~want.force
                 THEN /\ pc' = "bigiq_return" /\ loc' = [changed |-> "false"]
                      /\ UNCHANGED <<changes, result>>
                 ELSE IF want.check_mode
                 THEN /\ pc' = "bigiq_return" /\ loc' = [changed |-> "true"]
                      /\ changes' = d.ch
                      /\ UNCHANGED result
                 ELSE /\ changes' = IF want.force THEN f.ch ELSE d.ch
                      /\ pc' = "bigiq_discovery"
                      /\ loc' = [changed |-> "true"]
                      /\ UNCHANGED result
    /\ UNCHANGED <<mod, want, dev, calls>>

\* create(): the empty-modules error, _set_changed_options, the check-mode
\* return.
bigiq_create ==
    /\ mod = "bigiq" /\ pc = "bigiq_create"
    /\ LET wm == WantModules(want)
           f == BigiqSetChangedOptions(want) IN
       IF wm.err # "" THEN Fail(wm.err) /\ UNCHANGED <<changes, loc>>
       ELSE IF IsNil(wm.v)
       THEN Fail("List of modules cannot be empty if discovering a device.")
            /\ UNCHANGED <<changes, loc>>
       ELSE /\ changes' = f.ch
            /\ loc' = [changed |-> "true"]
            /\ pc' = IF want.check_mode THEN "bigiq_return" ELSE "bigiq_trust"
            /\ UNCHANGED result
    /\ UNCHANGED <<mod, want, dev, have, calls, reads>>

\* A task the device has accepted runs, or hangs for good.
NewTasks == {"running", "hung"}

\* The polls of _wait_for_task that are kept in loc.polls.
MaxPolls == 4

\* The statuses the last MaxPolls polls of a task have returned.
Polled(log, status) ==
    IF Len(log) < MaxPolls THEN Append(log, status) ELSE Append(Tail(log), status)

\* POST (or PATCH) of a task, then the way into _wait_for_task.
StartTask(m, r, payload, step) ==
    /\ calls' = Append(calls, CallP(m, r, payload))
    /\ \E code \in {200, 500} :
         IF code \notin OkCodes THEN Fail("remote error") /\ UNCHANGED <<dev, loc>>
         ELSE /\ \E t \in NewTasks : dev' = [dev EXCEPT !.task = t]
              /\ pc' = "bigiq_wait_for_task"
              /\ loc' = [changed |-> "true", step |-> step, slept |-> 0, polls |-> <<>>]
              /\ UNCHANGED result

\* set_trust_with_device.
bigiq_set_trust_with_device ==
    /\ mod = "bigiq" /\ pc = "bigiq_trust"
    /\ StartTask("POST", "tasks/device-trust", <<>>, "trust")
    /\ UNCHANGED <<mod, want, have, changes, reads>>

\* _set_device_id.
bigiq_set_device_id ==
    /\ mod = "bigiq" /\ pc = "bigiq_set_device_id"
    /\ Get
    /\ \E code \in {200, 500} :
         IF code \notin OkCodes THEN Fail("remote error")
         ELSE pc' = "bigiq_discovery" /\ UNCHANGED result
    /\ UNCHANGED <<mod, want, dev, have, changes, calls, loc>>

\* UsableChanges.modules as to_return gives it: the list of the module
\* names, absent when the change set has no modules.
HasModules(ch) == "modules" \in DOMAIN ch

\* discover_on_device: reuse_task_on_device (GET); tmp['modules'] raises
\* KeyError without modules; PATCH of the old task or POST of a new one.
bigiq_discover_on_device ==
    /\ mod = "bigiq" /\ pc = "bigiq_discovery"
    /\ Get
    /\ \E rcode \in {200, 500} :
         IF rcode \notin OkCodes
         THEN Fail("remote error") /\ UNCHANGED <<calls, dev, loc>>
         ELSE IF ~HasModules(changes)
         THEN Crash("KeyError") /\ UNCHANGED <<calls, dev, loc>>
         ELSE StartTask(IF dev.old_tasks THEN "PATCH" ELSE "POST",
                        "tasks/device-discovery",
                        [moduleList |-> changes.modules], "discovery")
    /\ UNCHANGED <<mod, want, have, changes>>

\* UsableChanges.module_list: the access entry carries apm_properties.
ModuleList(ch) ==
    [i \in 1..Len(ch.modules) |->
        IF ch.modules[i] = "access"
        THEN [module |-> "access",
              properties |-> IF "apm_properties" \in DOMAIN ch
                             THEN ch.apm_properties ELSE Nil]
        ELSE [module |-> ch.modules[i], properties |-> Nil]]

\* import_modules_on_device.
bigiq_import_modules_on_device ==
    /\ mod = "bigiq" /\ pc = "bigiq_import"
    /\ Get
    /\ \E rcode \in {200, 500} :
         IF rcode \notin OkCodes
         THEN Fail("remote error") /\ UNCHANGED <<calls, dev, loc>>
         ELSE StartTask(IF dev.old_tasks THEN "PATCH" ELSE "POST",
                        "tasks/device-import",
                        [moduleList |-> ModuleList(changes),
                         conflictPolicy |-> Upper(want.conflict_policy),
                         deviceConflictPolicy |-> Upper(want.device_conflict_policy)],
                        "import")
    /\ UNCHANGED <<mod, want, have, changes>>

\* enable_stats_on_device.
bigiq_enable_stats_on_device ==
    /\ mod = "bigiq" /\ pc = "bigiq_stats"
    /\ StartTask("POST", "stats-mgmt/agent-install-and-config-task", <<>>, "stats")
    /\ UNCHANGED <<mod, want, have, changes, reads>>

\* remove(): the check-mode return, then remove_autority_from_device.
bigiq_remove ==
    /\ mod = "bigiq" /\ pc = "bigiq_remove"
    /\ IF want.check_mode
       THEN /\ pc' = "bigiq_return" /\ loc' = [changed |-> "true"]
            /\ UNCHANGED <<calls, dev, result>>
       ELSE StartTask("POST", "tasks/device-remove-mgmt-authority", <<>>,
                      "remove_authority")
    /\ UNCHANGED <<mod, want, have, changes, reads>>

\* remove_trust_from_device.
bigiq_remove_trust_from_device ==
    /\ mod = "bigiq" /\ pc = "bigiq_remove_trust"
    /\ StartTask("POST", "tasks/device-remove-trust", <<>>, "remove_trust")
    /\ UNCHANGED <<mod, want, have, changes, reads>>

\* The statuses that end the loop of _wait_for_task.
TerminalStatuses == {"FINISHED", "FAILED", "CANCELLED"}

\* The task on a poll: a running task may have ended.
Progress(t) == IF t = "running" THEN {"running"} \cup TerminalStatuses ELSE {t}

\* response['contents']['status'] of a task that has not ended.
StatusOf(t) == IF t \in TerminalStatuses THEN t ELSE "STARTED"

\* The effect on the device of a task that has FINISHED.
TaskDone(d, step) ==
    IF step = "trust" THEN [d EXCEPT !.managed = TRUE]
    ELSE IF step = "import" /\ HasModules(changes)
    THEN [d EXCEPT !.mods = Some((IF IsNil(@) THEN {} ELSE Val(@))
                                  \cup Range(changes.modules))]
    ELSE IF step = "remove_trust"
    THEN [d EXCEPT !.managed = FALSE, !.mods = Nil, !.agn = Nil]
    ELSE d

\* _wait_for_task: one GET of "while True", and what follows the loop.
\* slept is the parity of the time.sleep(1) calls of the loop.
\* response['errorMessage'] raises KeyError: the message is under
\* response['contents'].  loc.polls keeps the statuses the polls returned.
bigiq_wait_for_task ==
    /\ mod = "bigiq" /\ pc = "bigiq_wait_for_task"
    /\ Get
    /\ \E code \in {200, 500}, t \in Progress(dev.task) :
         IF code \notin OkCodes THEN Fail("remote error") /\ UNCHANGED <<dev, loc>>
         ELSE IF t \notin TerminalStatuses
         THEN /\ loc' = [loc EXCEPT !.slept = 1 - @, !.polls = Polled(@, StatusOf(t))]
              /\ UNCHANGED <<pc, dev, result>>
         ELSE IF t = "FAILED"
         THEN /\ Crash("KeyError") /\ dev' = [dev EXCEPT !.task = t]
              /\ loc' = [loc EXCEPT !.polls = Polled(@, t)]
         ELSE IF t = "CANCELLED"
         THEN /\ Fail("The task process has been cancelled.")
              /\ dev' = [dev EXCEPT !.task = t]
              /\ loc' = [loc EXCEPT !.polls = Polled(@, t)]
         ELSE /\ dev' = [TaskDone(dev, loc.step) EXCEPT !.task = "none"]
              /\ pc' = BigiqAfter(loc.step)
              /\ loc' = [changed |-> loc.changed, polls |-> Polled(loc.polls, t)]
              /\ UNCHANGED result
    /\ UNCHANGED <<mod, want, have, changes, calls>>

\* exec_module: result.update(dict(changed=changed)).
bigiq_exec_module_return ==
    /\ mod = "bigiq" /\ pc = "bigiq_return"
    /\ Exit(loc.changed)
    /\ UNCHANGED <<mod, want, dev, have, changes, calls, reads, loc>>

NextBigiq ==
    \/ bigiq_exec_module
    \/ bigiq_exists
    \/ bigiq_update
    \/ bigiq_create
    \/ bigiq_set_trust_with_device
    \/ bigiq_set_device_id
    \/ bigiq_discover_on_device
    \/ bigiq_import_modules_on_device
    \/ bigiq_enable_stats_on_device
    \/ bigiq_remove
    \/ bigiq_remove_trust_from_device
    \/ bigiq_wait_for_task
    \/ bigiq_exec_module_return

SpecBigiq == InitBigiq /\ [][NextBigiq]_vars

\* ------------------------------------------------------------------------
\* bigip_command
\* ------------------------------------------------------------------------

\* A command is a sequence of words and blanks; "tmsh " is the word tmsh
\* followed by a blank.
Blank == " "

Quote == "\""

MaxCmds == 2

MaxRetries == 2

MaxConds == 1

RECURSIVE LStrip(_)
\* str.lstrip() over words and blanks.
LStrip(c) == IF c # <<>> /\ Head(c) = Blank THEN LStrip(Tail(c)) ELSE c

RECURSIVE RStrip(_)
\* str.rstrip().
RStrip(c) ==
    IF c # <<>> /\ c[Len(c)] = Blank THEN RStrip(SubSeq(c, 1, Len(c) - 1)) ELSE c

\* str.strip().
Strip(c) == RStrip(LStrip(c))

\* command[0:5] == 'tmsh '.
HasTmshPrefix(c) == Len(c) >= 2 /\ c[1] = "tmsh" /\ c[2] = Blank

\* The body of the loop of normalize_commands: strip, then drop one prefix.
NormalizeCommand(c) ==
    LET x == Strip(c) IN
    IF HasTmshPrefix(x) THEN Strip(Tail(x)) ELSE x

\* BaseManager.normalize_commands.
normalize_commands(raw_commands) ==
    IF raw_commands = <<>> THEN Nil
    ELSE Some([i \in 1..Len(raw_commands) |-> NormalizeCommand(raw_commands[i])])

\* Parameters.chdir that qualifies every path.
ChdirAlways(path) == IF IsNil(path) THEN Nil ELSE Some(<<"/">> \o Val(path))

\* Parameters.chdir on a path of "/" and name words.
Chdir(path) ==
    IF IsNil(path) THEN Nil
    ELSE IF Val(path) # <<>> /\ Head(Val(path)) = "/" THEN path
    ELSE Some(<<"/">> \o Val(path))

\* The pipe character.
Pipe == "|"

\* A double quote behind 0, 1, ... backslashes; each is one '"' character
\* of the command.
QuoteForms == <<"\"", "\\\"", "\\\\\"", "\\\\\\\"", "\\\\\\\\\"">>

\* A double quote the user has escaped with a backslash.
EscQuote == QuoteForms[2]

IsQuote(t) == \E k \in 1..Len(QuoteForms) : QuoteForms[k] = t

\* re.sub(r'([$"])', <n backslashes>\1, ...) on one word: n more
\* backslashes before the quote.
Escape(t, n) ==
    IF IsQuote(t) THEN QuoteForms[(CHOOSE k \in 1..Len(QuoteForms) : QuoteForms[k] = t) + n]
    ELSE t

\* command.count('"').
CountQuotes(c) == Cardinality({ i \in 1..Len(c) : IsQuote(c[i]) })

\* command['command'].count('"') % 2 != 0.
Unbalanced(c) == CountQuotes(c) % 2 # 0

RECURSIVE ShlexFrom(_, _, _, _)
\* shlex.shlex(cmd, posix=True) with whitespace '|' and whitespace_split,
\* read to the end: inq is "inside double quotes", cur "a token is being
\* read", n the tokens read so far.  An escaped quote is an ordinary
\* character; a quote left open raises ValueError.
ShlexFrom(c, inq, cur, n) ==
    IF c = <<>>
    THEN (IF inq THEN [err |-> "ValueError: No closing quotation", v |-> 0]
          ELSE [err |-> "", v |-> n + (IF cur THEN 1 ELSE 0)])
    ELSE IF Head(c) = Quote THEN ShlexFrom(Tail(c), ~inq, TRUE, n)
    ELSE IF Head(c) = Pipe /\ ~inq
    THEN ShlexFrom(Tail(c), FALSE, FALSE, n + (IF cur THEN 1 ELSE 0))
    ELSE ShlexFrom(Tail(c), inq, TRUE, n)

\* Parameters.cmd_has_pipe: [err, v].
cmd_has_pipe(cmd) ==
    LET r == ShlexFrom(cmd, FALSE, FALSE, 0) IN
    [err |-> r.err, v |-> r.v > 1]

\* A split at the first pipe that strips the two parts.
SplitAtPipeStripped(c) ==
    LET k == CHOOSE i \in 1..Len(c) : c[i] = Pipe /\ \A j \in 1..(i - 1) : c[j] # Pipe IN
    [command |-> Strip(SubSeq(c, 1, k - 1)), pipeline |-> Strip(SubSeq(c, k + 1, Len(c)))]

\* command.split('|', 1): the parts before and after the first pipe.
SplitAtPipe(c) ==
    LET k == CHOOSE i \in 1..Len(c) : c[i] = Pipe /\ \A j \in 1..(i - 1) : c[j] # Pipe IN
    [command |-> SubSeq(c, 1, k - 1), pipeline |-> SubSeq(c, k + 1, Len(c))]

\* The body of the loop of convert_commands and of convert_commands_cli:
\* [err, command, pipeline].  The commands of the model carry no single
\* quote, so the replace of convert_commands finds nothing.
ConvertCommand(c) ==
    LET h == cmd_has_pipe(c) IN
    IF h.err # "" THEN [err |-> h.err, command |-> <<>>, pipeline |-> <<>>]
    ELSE IF h.v THEN [err |-> ""] @@ SplitAtPipe(c)
    ELSE [err |-> "", command |-> c, pipeline |-> <<>>]

QuotesMsg == "Double quotes are unbalanced"

\* Parameters.addon_chdir: "cd <chdir>; <command>".
addon_chdir(chdir, d) ==
    [d EXCEPT !.command = <<"cd", Blank>> \o chdir \o <<";", Blank>> \o @]

\* Parameters.addon_tmsh: the count of the quotes of the primary command,
\* three backslashes before each quote, the tmsh -c \"...\" wrapper.
addon_tmsh(d) ==
    IF Unbalanced(d.command) THEN [d EXCEPT !.err = QuotesMsg]
    ELSE [d EXCEPT !.command =
            <<"tmsh", Blank, "-c", Blank, EscQuote>>
            \o [i \in 1..Len(@) |-> Escape(@[i], 3)] \o <<EscQuote>>]

\* Parameters.addon_tmsh_cli: the count, the tmsh -c "..." wrapper.
addon_tmsh_cli(d) ==
    IF Unbalanced(d.command) THEN [d EXCEPT !.err = QuotesMsg]
    ELSE [d EXCEPT !.command = <<"tmsh", Blank, "-c", Blank, Quote>> \o @ \o <<Quote>>]

\* '{0} | {1}'.format(command, pipeline).strip().
JoinPipe(command, pipeline) == Strip(command \o <<Blank, Pipe, Blank>> \o pipeline)

\* Parameters.merge_command_dict: one backslash before each quote of the
\* pipeline, then the join.
merge_command_dict(d) ==
    IF d.pipeline # <<>>
    THEN [d EXCEPT !.command =
            JoinPipe(@, [i \in 1..Len(d.pipeline) |-> Escape(d.pipeline[i], 1)])]
    ELSE d

\* Parameters.merge_command_dict_cli.
merge_command_dict_cli(d) ==
    IF d.pipeline # <<>> THEN [d EXCEPT !.command = JoinPipe(@, d.pipeline)] ELSE d

\* Parameters.rest_commands for one normalized command: [err, command,
\* pipeline] with the final command in command.
RestCommand(c, chdir) ==
    LET d0 == ConvertCommand(c)
        d1 == IF IsNil(chdir) THEN d0 ELSE addon_chdir(Val(chdir), d0)
        d2 == addon_tmsh(d1) IN
    IF d0.err # "" THEN d0
    ELSE IF d2.err # "" THEN d2
    ELSE merge_command_dict(d2)

\* Parameters.cli_commands for one normalized command.
CliCommand(c, chdir, is_tmsh) ==
    LET d0 == ConvertCommand(c)
        d1 == IF IsNil(chdir) THEN d0 ELSE addon_chdir(Val(chdir), d0)
        d2 == IF is_tmsh THEN d1 ELSE addon_tmsh_cli(d1) IN
    IF d0.err # "" THEN d0
    ELSE IF d2.err # "" THEN d2
    ELSE merge_command_dict_cli(d2)

\* valid_configs, changed_command_prefixes: the first word decides.
valid_configs == {"list", "show"}

changed_command_prefixes == {"modify", "create", "delete"}

StartsWith(c, words) == c # <<>> /\ Head(c) \in words

\* notify_non_idempotent_commands: the number of warnings appended; the
\* loop returns at the first command of valid_configs.
NotifyNonIdempotent(commands) ==
    LET valid == { i \in 1..Len(commands) : StartsWith(commands[i], valid_configs) } IN
    IF valid = {} THEN Len(commands)
    ELSE (CHOOSE i \in valid : \A j \in valid : i <= j) - 1

\* A response of the device is a sequence of words; ws stands at word i.
HasWords(resp, i, ws) ==
    /\ i + Len(ws) - 1 <= Len(resp)
    /\ \A k \in 1..Len(ws) : resp[i + k - 1] = ws[k]

\* regex.search for a pattern "first.*last".
Search(resp, first, last) ==
    \E i \in 1..Len(resp), j \in 1..Len(resp) :
        HasWords(resp, i, first) /\ j >= i + Len(first) /\ HasWords(resp, j, last)

\* NoChangeReporter.stdout_re.
stdout_re ==
    <<[first |-> <<"The", "requested">>, last |-> <<"already", "exists">>],
      [first |-> <<"Data Input Error:", "shared">>, last |-> <<"already", "exists">>]>>

\* NoChangeReporter.find_no_change that finds nothing.
FindNothing(resp) == FALSE

\* NoChangeReporter.find_no_change on the responses of a batch.
find_no_change(resp) ==
    \E k \in 1..Len(stdout_re) : Search(resp, stdout_re[k].first, stdout_re[k].last)

\* determine_change.
determine_change(commands, resp) ==
    IF find_no_change(resp) THEN FALSE
    ELSE \E i \in 1..Len(commands) : StartsWith(commands[i], changed_command_prefixes)

CmdChoices ==
    {<<"list", Blank, "ltm">>, <<"tmsh", Blank, "modify", Blank, "ltm">>,
     <<"create", Blank, Quote>>, <<"show", Blank, "|", Blank, "grep">>}

CmdLists == UNION { [1..n -> CmdChoices] : n \in 0..MaxCmds }

\* wait_for is the number of conditionals given.
CmdWants ==
    [commands : CmdLists, retries : 0..MaxRetries, wait_for : 0..MaxConds,
     match : {"any", "all"}, warn : BOOLEAN, check_mode : BOOLEAN]

InitCmd ==
    /\ mod = "cmd"
    /\ pc = "cmd_execute"
    /\ want \in CmdWants
    /\ dev = None
    /\ have = None
    /\ changes = <<>>
    /\ calls = <<>>
    /\ reads = 0
    /\ loc = NoLoc
    /\ result = NoResult

\* V2Manager.commands: rest_commands over the normalized commands, [err,
\* v].  convert_commands runs over every command before addon_tmsh does.
RestCommands(commands) ==
    LET conv == [i \in 1..Len(commands) |-> ConvertCommand(commands[i])]
        built == [i \in 1..Len(commands) |-> RestCommand(commands[i], Nil)] IN
    IF FirstErr(conv) # "" THEN [err |-> FirstErr(conv), v |-> <<>>]
    ELSE IF FirstErr(built) # "" THEN [err |-> FirstErr(built), v |-> <<>>]
    ELSE [err |-> "", v |-> [i \in 1..Len(commands) |-> built[i].command]]

\* execute() up to the loop: normalize_commands, the empty return,
\* notify_non_idempotent_commands, parse_commands (rest_commands raises
\* ValueError or Exception on unbalanced quotes), the check-mode return of
\* None.
cmd_execute ==
    /\ mod = "cmd" /\ pc = "cmd_execute"
    /\ LET norm == normalize_commands(want.commands)
           built == RestCommands(Val(norm)) IN
       IF IsNil(norm) THEN Exit("false") /\ UNCHANGED loc
       ELSE IF built.err # "" THEN Crash(built.err) /\ UNCHANGED loc
       ELSE IF want.check_mode THEN Exit("None") /\ UNCHANGED loc
       ELSE /\ pc' = "cmd_retries"
            /\ loc' = [commands |-> Val(norm), sent |-> built.v,
                       warnings |-> NotifyNonIdempotent(Val(norm)),
                       retries |-> want.retries, conditionals |-> want.wait_for,
                       it |-> 0, resp |-> <<>>]
            /\ UNCHANGED result
    /\ UNCHANGED <<mod, want, dev, have, changes, calls, reads>>

\* What the device answers to a batch of commands: the output, the tmsh
\* help, and three messages that hold "already exists".
CmdResponses ==
    {<<"ok">>, <<"usage: tmsh">>,
     <<"The", "requested", "pool", "already", "exists">>,
     <<"Data Input Error:", "shared", "alias", "already", "exists">>,
     <<"file", "already", "exists">>}

\* 'usage: tmsh' in resp.
IsUsage(resp) == \E i \in 1..Len(resp) : resp[i] = "usage: tmsh"

\* execute_on_device that sends the commands in the first iteration only.
PostsOnce(commands, n, it) ==
    IF it > 1 THEN <<>>
    ELSE [i \in 1..n |-> [m |-> "POST", r |-> "util/bash", loop |-> "retries",
                          it |-> it, p |-> commands[i]]]

\* The POSTs of execute_on_device for the first n commands, issued from
\* iteration it of the retry loop.
Posts(commands, n, it) ==
    [i \in 1..n |-> [m |-> "POST", r |-> "util/bash", loop |-> "retries", it |-> it,
                     p |-> commands[i]]]

\* One evaluation of "while retries > 0": _execute(commands) (a POST per
\* command, the first non-2xx raising), _check_known_errors, the
\* conditionals, retries -= 1; the else branch raises
\* FailedConditionsError, which main() does not catch.
cmd_retries ==
    /\ mod = "cmd" /\ pc = "cmd_retries"
    /\ IF loc.retries <= 0
       THEN Crash("FailedConditionsError") /\ UNCHANGED <<calls, loc>>
       ELSE \E bad \in 0..Len(loc.commands), resp \in CmdResponses,
               met \in 0..loc.conditionals :
              LET it == loc.it + 1
                  left == IF want.match = "any" /\ met > 0 THEN 0
                          ELSE loc.conditionals - met IN
              IF bad > 0
              THEN /\ calls' = calls \o Posts(loc.sent, bad, it)
                   /\ Fail("remote error") /\ UNCHANGED loc
              ELSE /\ calls' = calls \o Posts(loc.sent, Len(loc.sent), it)
                   /\ IF IsUsage(resp)
                      THEN Fail("tmsh command printed its 'help' message instead of running your command.")
                           /\ UNCHANGED loc
                      ELSE IF left = 0
                      THEN /\ pc' = "cmd_changes"
                           /\ loc' = [loc EXCEPT !.it = it, !.resp = resp,
                                                 !.conditionals = 0]
                           /\ UNCHANGED result
                      ELSE /\ loc' = [loc EXCEPT !.it = it, !.resp = resp,
                                                 !.conditionals = left,
                                                 !.retries = @ - 1]
                           /\ UNCHANGED <<pc, result>>
    /\ UNCHANGED <<mod, want, dev, have, changes, reads>>

\* execute() after the loop: self.changes, determine_change; exec_module.
cmd_exec_module_return ==
    /\ mod = "cmd" /\ pc = "cmd_changes"
    /\ changes' = [stdout |-> loc.resp,
                   warnings |-> IF want.warn THEN loc.warnings ELSE 0]
    /\ Exit(Bool2Str(determine_change(loc.commands, loc.resp)))
    /\ UNCHANGED <<mod, want, dev, have, calls, reads, loc>>

NextCmd ==
    \/ cmd_execute
    \/ cmd_retries
    \/ cmd_exec_module_return

SpecCmd == InitCmd /\ [][NextCmd]_vars

\* ------------------------------------------------------------------------
\* The normalizers on their own
\* ------------------------------------------------------------------------

\* The longest command, in words and blanks.
MaxTokens == 5

\* The longest path and the longest module list.
MaxPath == 3

SeqsUpTo(S, n) == UNION { [1..k -> S] : k \in 0..n }

\* The module names the option accepts.
ModuleChoices == {"ltm", "asm", "apm", "afm", "security_shared", "websafe", "dns"}

\* kind: the normalizer; x: its input.
NormCommands ==
    { [kind |-> "commands", x |-> <<c>>] : c \in SeqsUpTo({"tmsh", Blank, "list"}, MaxTokens) }

NormPaths ==
    { [kind |-> "chdir", x |-> o] :
        o \in {Nil} \cup { Some(q) : q \in SeqsUpTo({"/", "Common"}, MaxPath) } }

NormStates ==
    { [kind |-> "state", x |-> st] :
        st \in {"configured", "disabled", "provisioned", "present", "absent"} }

NormModules ==
    { [kind |-> "modules", x |-> q] : q \in SeqsUpTo(ModuleChoices, MaxPath - 1) }

InitNorm ==
    /\ mod = "norm"
    /\ pc = "norm"
    /\ \/ want \in NormCommands
       \/ want \in NormPaths
       \/ want \in NormStates
       \/ want \in NormModules
    /\ dev = None
    /\ have = None
    /\ changes = <<>>
    /\ calls = <<>>
    /\ reads = 0
    /\ loc = NoLoc
    /\ result = NoResult

\* The normalizer leaves its output in loc.out.
Normalized(out) ==
    /\ pc' = "normalized"
    /\ loc' = [out |-> out]
    /\ UNCHANGED <<mod, want, dev, have, changes, calls, reads, result>>

norm_normalize_commands ==
    /\ mod = "norm" /\ pc = "norm" /\ want.kind = "commands"
    /\ Normalized(normalize_commands(want.x))

norm_chdir ==
    /\ mod = "norm" /\ pc = "norm" /\ want.kind = "chdir"
    /\ Normalized(Chdir(want.x))

norm_state ==
    /\ mod = "norm" /\ pc = "norm" /\ want.kind = "state"
    /\ Normalized(WantState(want.x))

norm_modules ==
    /\ mod = "norm" /\ pc = "norm" /\ want.kind = "modules"
    /\ Normalized(MapModules(want.x))

NextNorm ==
    \/ norm_normalize_commands
    \/ norm_chdir
    \/ norm_state
    \/ norm_modules

SpecNorm == InitNorm /\ [][NextNorm]_vars

\* ------------------------------------------------------------------------
\* The Difference on its own
\* ------------------------------------------------------------------------

\* The lists a list-valued field is given or holds on the device.
VlanLists == Arrangements(1..MaxVlan)

DiffVcmpWants ==
    { [state |-> "present", partition |-> "Common", vlans |-> v, mgmt_network |-> Nil,
       mgmt_address |-> Nil, initial_image |-> Nil, mgmt_route |-> Nil,
       cores_per_slot |-> Nil, allowed_slots |-> a, delete_virtual_disk |-> FALSE,
       check_mode |-> FALSE] :
        v \in {Nil} \cup { Some(ShortNames(q)) : q \in VlanLists },
        a \in {Nil} \cup { Some(q) : q \in VlanLists } }

DiffVcmpHaves ==
    { [vlans |-> Some(FullNames(q)), mgmt_network |-> Some("bridged"),
       mgmt_address |-> Some(Addr("10.0.0.1", "24")), initial_image |-> Some("img1"),
       mgmt_route |-> Some("10.0.0.254"), cores_per_slot |-> Some(1),
       allowed_slots |-> a, state |-> "deployed"] :
        q \in VlanLists, a \in {Nil} \cup { Some(r) : r \in VlanLists } }

DiffBigiqWants ==
    { [state |-> "present", force |-> FALSE, check_mode |-> FALSE,
       device_address |-> "10.0.0.9", modules |-> m, access_group_name |-> Nil,
       access_conflict_policy |-> Nil, conflict_policy |-> "use_bigiq",
       device_conflict_policy |-> "use_bigiq", stats_enabled |-> FALSE] :
        m \in {Nil} \cup { Some(q) : q \in Arrangements({"ltm", "asm", "security_shared"}) } }

DiffBigiqHaves ==
    { [modules |-> m, access_group_name |-> Nil] :
        m \in {Nil} \cup { Some(ms) : ms \in SUBSET {"adc_core", "asm", "security_shared"} } }

InitDiff ==
    /\ mod \in {"diff_vcmp", "diff_bigiq"}
    /\ pc = "diff"
    /\ want \in (IF mod = "diff_vcmp" THEN DiffVcmpWants ELSE DiffBigiqWants)
    /\ dev = None
    /\ have \in (IF mod = "diff_vcmp" THEN DiffVcmpHaves ELSE DiffBigiqHaves)
    /\ changes = <<>>
    /\ calls = <<>>
    /\ reads = 0
    /\ loc = NoLoc
    /\ result = NoResult

\* bigip_vcmp_guest: _update_changed_options on (want, have).
diff_vcmp ==
    /\ mod = "diff_vcmp" /\ pc = "diff"
    /\ changes' = VcmpUpdateChangedOptions(want, have, {"img1"})
    /\ pc' = "diffed"
    /\ UNCHANGED <<mod, want, dev, have, calls, reads, loc, result>>

\* bigiq_device_discovery: _update_changed_options on (want, have).
diff_bigiq ==
    /\ mod = "diff_bigiq" /\ pc = "diff"
    /\ changes' = BigiqUpdateChangedOptions(want, have)
    /\ pc' = "diffed"
    /\ UNCHANGED <<mod, want, dev, have, calls, reads, loc, result>>

NextDiff ==
    \/ diff_vcmp
    \/ diff_bigiq

SpecDiff == InitDiff /\ [][NextDiff]_vars

\* ------------------------------------------------------------------------
\* The construction of a command on its own
\* ------------------------------------------------------------------------

\* The longest command that is built, in words, blanks, quotes and pipes.
MaxBuild == 5

\* The command of the pipe scenario: show sys version | grep BIG-IP.
PipeExample ==
    <<"show", Blank, "sys", Blank, "version", Blank, Pipe, Blank, "grep", Blank, "BIG-IP">>

BuildCommands ==
    SeqsUpTo({"show", Blank, Quote, EscQuote, Pipe}, MaxBuild) \cup {PipeExample}

\* use_ssh chooses V1Manager (CLI) or V2Manager (REST).
BuildWants ==
    [command : BuildCommands, use_ssh : BOOLEAN, chdir : {Nil, Some(<<"Common">>)}]

\* V1Manager.is_tmsh: whether the CLI session is inside tmsh is the
\* device's answer to 'tmsh -v'.
InitBuild ==
    /\ mod = "build"
    /\ pc = "build"
    /\ want \in BuildWants
    /\ dev \in [is_tmsh : BOOLEAN]
    /\ dev.is_tmsh => want.use_ssh
    /\ have = None
    /\ changes = <<>>
    /\ calls = <<>>
    /\ reads = 0
    /\ loc = NoLoc
    /\ result = NoResult

\* execute() and parse_commands for one command: loc.norm is the
\* normalized command, loc.parts what convert_commands makes of it,
\* loc.out the command built.
Built(out) ==
    /\ pc' = "built"
    /\ loc' = [norm |-> NormalizeCommand(want.command),
               parts |-> ConvertCommand(NormalizeCommand(want.command)),
               out |-> out]
    /\ UNCHANGED <<mod, want, dev, have, changes, calls, reads, result>>

build_rest_commands ==
    /\ mod = "build" /\ pc = "build" /\ ~want.use_ssh
    /\ Built(RestCommand(NormalizeCommand(want.command), Chdir(want.chdir)))

build_cli_commands ==
    /\ mod = "build" /\ pc = "build" /\ want.use_ssh
    /\ Built(CliCommand(NormalizeCommand(want.command), Chdir(want.chdir), dev.is_tmsh))

\* _execute: the exception of the construction, or execute_on_device with
\* the command built.
build_execute_on_device ==
    /\ mod = "build" /\ pc = "built"
    /\ IF loc.out.err # ""
       THEN Crash(loc.out.err) /\ UNCHANGED calls
       ELSE /\ calls' = Append(calls, CallP(IF want.use_ssh THEN "CLI" ELSE "POST",
                                            IF want.use_ssh THEN "run_commands"
                                            ELSE "util/bash",
                                            loc.out.command))
            /\ pc' = "sent"
            /\ UNCHANGED result
    /\ UNCHANGED <<mod, want, dev, have, changes, reads, loc>>

NextBuild ==
    \/ build_rest_commands
    \/ build_cli_commands
    \/ build_execute_on_device

SpecBuild == InitBuild /\ [][NextBuild]_vars

\* ------------------------------------------------------------------------
\* The five modules together, and the runs under weak fairness
\* ------------------------------------------------------------------------

Init == InitUcs \/ InitCsr \/ InitVcmp \/ InitBigiq \/ InitCmd

Next == NextUcs \/ NextCsr \/ NextVcmp \/ NextBigiq \/ NextCmd

Spec == Init /\ [][Next]_vars

\* A run that can take a step takes one: the module's process is scheduled.
FairSpecVcmp == SpecVcmp /\ WF_vars(NextVcmp)

FairSpecBigiq == SpecBigiq /\ WF_vars(NextBigiq)

\* ------------------------------------------------------------------------
\* Two runs of bigip_ssl_csr or bigip_vcmp_guest, one after the other
\* ------------------------------------------------------------------------

\* The entry of the log that separates the calls of the second run from
\* those of the first.
SecondRunMark == Call("RUN", "second", "none", 0)

SecondRun == calls # <<>> /\ calls[1] = SecondRunMark

\* The parameters the user gave: create() of bigip_vcmp_guest has put the
\* default mask into self.want when the address came without one (the
\* create call then carries the prefix length 32).
GivenParameters ==
    IF /\ mod = "vcmp" /\ calls # <<>> /\ calls[1].m = "POST"
       /\ want.mgmt_address = Some(Addr(calls[1].p.mgmt_address.ip, "255.255.255.0"))
       /\ calls[1].p.mgmt_address.mask = "32"
    THEN [want EXCEPT !.mgmt_address = Some(Addr(calls[1].p.mgmt_address.ip, ""))]
    ELSE want

\* main() once more: a run for a state other than absent has ended well
\* outside check mode, and the module is run again with the parameters of
\* the first run on the device and the local files as that run left them.
second_run ==
    /\ mod \in {"csr", "vcmp"} /\ pc = "done" /\ ~SecondRun
    /\ want.state # "absent" /\ ~want.check_mode
    /\ pc' = IF mod = "csr" THEN "csr_exec_module" ELSE "vcmp_exists"
    /\ want' = GivenParameters
    /\ dev' = IF mod = "csr" THEN [dev EXCEPT !.csr0 = dev.csr, !.dest0 = dev.dest]
              ELSE dev
    /\ have' = IF mod = "csr" THEN None ELSE Nil
    /\ changes' = IF mod = "csr" THEN {} ELSE <<>>
    /\ calls' = <<SecondRunMark>>
    /\ reads' = 0
    /\ loc' = NoLoc
    /\ result' = NoResult
    /\ UNCHANGED mod

InitTwice == InitCsr \/ InitVcmp

NextTwice == NextCsr \/ NextVcmp \/ second_run

SpecTwice == InitTwice /\ [][NextTwice]_vars


\* ------------------------------------------------------------------------
\* Properties
\* ------------------------------------------------------------------------

\* update() has read the resource from the device.
Observed == DOMAIN have # {}

\* remove() has seen exists() answer "not found" after the delete.
Verified == "verified" \in DOMAIN loc /\ loc.verified

\* No given field of the vCMP guest differs from the device: lists as sets,
\* the address as ip and prefix length.
VcmpNothingDiffers ==
    /\ IsNil(want.vlans) \/ Range(Val(WantVlans(want))) = Range(Val(have.vlans))
    /\ IsNil(want.allowed_slots) \/ Range(Val(want.allowed_slots)) = Range(Val(have.allowed_slots))
    /\ IsNil(want.mgmt_network) \/ want.mgmt_network = have.mgmt_network
    /\ IsNil(want.mgmt_address)
       \/ (WantMgmtAddress(want).err = "" /\ WantMgmtAddress(want).v = have.mgmt_address)
    /\ IsNil(want.initial_image) \/ want.initial_image = have.initial_image
    /\ IsNil(want.mgmt_route) \/ want.mgmt_route = have.mgmt_route
    /\ IsNil(want.cores_per_slot) \/ want.cores_per_slot = have.cores_per_slot
    /\ WantState(want.state) = have.state

\* No given field of the BIG-IQ device differs: the modules asked for are
\* discovered and imported, the access group is the observed one.
BigiqNothingDiffers ==
    /\ ~want.force
    /\ IsNil(want.modules)
       \/ (~IsNil(have.modules)
           /\ Range(MapModules(Val(want.modules))) \subseteq Val(have.modules))
    /\ want.access_group_name = have.access_group_name

\* C1: a run on an existing resource none of whose given fields differs
\* from the observed state ends with an empty change set and reports
\* changed = false (vCMP update, BIG-IQ update, UCS fetch of a UCS that is
\* only to exist on the device).
C1_NoDiffNoChange ==
    pc = "done" =>
      /\ (mod = "ucs" /\ dev.ucs /\ want.only_create_file /\ calls = <<>>)
            => result.changed = "false"
      /\ (mod = "vcmp" /\ want.state # "absent" /\ Observed /\ VcmpNothingDiffers)
            => (result.changed = "false" /\ changes = <<>>)
      /\ (mod = "bigiq" /\ want.state = "present" /\ Observed /\ BigiqNothingDiffers)
            => (result.changed = "false" /\ changes = <<>>)

\* C2: in check mode no module issues a non-GET device call or writes a
\* local file.
C2_CheckModeIssuesNothing == want.check_mode => calls = <<>>

\* C3: the BIG-IQ task poller always leaves its loop, whatever the task
\* does.
C3_PollerEnds == (pc = "bigiq_wait_for_task") ~> (pc # "bigiq_wait_for_task")

\* C4: wait_for_configured, wait_for_provisioned and wait_for_deployed
\* always return, even when the guest never reaches the awaited state.
C4_WaitReturns == (pc = "vcmp_wait_for") ~> (pc # "vcmp_wait_for")

\* C5 as stated: no logged call was issued by a second or later iteration
\* of a retry loop.
C5_NoCallRepeated == \A i \in 1..Len(calls) : calls[i].it <= 1

\* The loops that poll the device: async_wait, wait_for_*, _wait_for_task.
PollLoops == {"ucs_async_wait", "vcmp_wait_for", "bigiq_wait_for_task"}

\* Outside bigip_command no logged call comes from a retry loop; the retry
\* loop of bigip_command sends the whole command list again on each of its
\* at most `retries` iterations: the k-th logged call is command
\* ((k-1) mod n)+1 sent by iteration ((k-1) div n)+1, and every completed
\* iteration has sent all n commands.
C5_CommandsResent ==
    /\ mod # "cmd" => \A i \in 1..Len(calls) : calls[i].loop = "none"
    /\ (mod = "cmd" /\ calls # <<>>) =>
         LET cs == RestCommands(Val(normalize_commands(want.commands))).v
             n == Len(cs) IN
         /\ \A i \in 1..Len(calls) :
              /\ calls[i].it = ((i - 1) \div n) + 1
              /\ calls[i].it <= want.retries
              /\ calls[i].p = cs[((i - 1) % n) + 1]
         /\ pc \in {"cmd_retries", "cmd_changes", "done", "crashed"}
              => Len(calls) = n * loc.it

\* C5, amended: an iteration of a poll loop (UCS, vCMP, BIG-IQ) that stays
\* in the loop issues no call but its GET; the only calls repeated by a
\* retry loop are the commands of bigip_command, all of them on every
\* iteration.
C5_OnlyCommandsRepeat ==
    /\ []C5_CommandsResent
    /\ [][(pc \in PollLoops /\ pc' = pc) => calls' = calls]_vars

\* C5 witness: a modify/create/delete command was sent again by the second
\* iteration of the retry loop.
C5_Witness ==
    /\ mod = "cmd"
    /\ \E i \in 1..Len(calls) :
         /\ calls[i].it = 2
         /\ StartsWith(loc.commands[((i - 1) % Len(loc.commands)) + 1],
                       changed_command_prefixes)

\* The given access group name differs from the observed one.
AgnDiffers ==
    ~IsNil(want.access_group_name) /\ want.access_group_name # have.access_group_name

ImmutableMsg == "Access group name cannot be modified once it is set."

\* C6 as stated: an update whose given access_group_name differs from the
\* observed one fails with the immutable-field error and issues no call.
C6_ImmutableErrorAlways ==
    (mod = "bigiq" /\ Observed /\ AgnDiffers) =>
        /\ pc = "failed"
        /\ result.msg = ImmutableMsg
        /\ calls = <<>>

\* C6, amended: such an update fails and issues no call; the error is the
\* immutable-field error unless the modules list is invalid, whose
\* validation error is raised first.
C6_ImmutableOrValidation ==
    (mod = "bigiq" /\ Observed /\ AgnDiffers) =>
        /\ pc = "failed"
        /\ result.msg = IF WantModules(want).err # "" THEN WantModules(want).err
                        ELSE ImmutableMsg
        /\ calls = <<>>

\* C6 witness: an update has failed with the immutable-field error.
C6_Witness ==
    /\ mod = "bigiq" /\ Observed /\ AgnDiffers /\ ~IsNil(have.access_group_name)
    /\ pc = "failed" /\ result.msg = ImmutableMsg

\* C7: a vlans or allowed_slots list that holds the elements of the list
\* on the device, in any order, is not in the change set and not in the
\* payload of any PATCH.
C7_OrderIsNoChange ==
    (mod = "vcmp" /\ Observed /\ want.state # "absent") =>
        /\ (~IsNil(want.vlans) /\ Range(Val(WantVlans(want))) = Range(Val(have.vlans)))
              => /\ "vlans" \notin DOMAIN changes
                 /\ \A i \in 1..Len(calls) : "vlans" \notin DOMAIN calls[i].p
        /\ (~IsNil(want.allowed_slots)
            /\ Range(Val(want.allowed_slots)) = Range(Val(have.allowed_slots)))
              => /\ "allowed_slots" \notin DOMAIN changes
                 /\ \A i \in 1..Len(calls) : "allowed_slots" \notin DOMAIN calls[i].p

\* The orders a list can be given in.
Orders(q) == { r \in Arrangements(Range(q)) : Len(r) = Len(q) }

\* The desired parameters with the list of field k given in order q.
WithList(w, k, q) ==
    [w EXCEPT ![k] = IF k = "vlans" THEN Some(ShortNames(q)) ELSE Some(q)]

\* The user's list of field k, as the numbers or names it was built from.
GivenList(w, k) ==
    IF k = "vlans" THEN [i \in 1..Len(Val(w.vlans)) |-> Val(w.vlans)[i].n]
    ELSE Val(w[k])

\* What _update_changed_options returns for w and the observed state.
DiffOf(w) ==
    IF mod = "diff_vcmp" THEN VcmpUpdateChangedOptions(w, have, {"img1"})
    ELSE BigiqUpdateChangedOptions(w, have)

ListFields == IF mod = "diff_vcmp" THEN {"vlans", "allowed_slots"} ELSE {"modules"}

\* C8 as stated: the change set is identical for every order of a given
\* list.
C8_PermutationSameChangeSet ==
    pc = "diffed" =>
        \A k \in ListFields :
            ~IsNil(want[k]) =>
                \A q \in Orders(GivenList(want, k)) :
                    DiffOf(WithList(want, k, q)) = changes

\* Two change sets with the same keys whose values are equal, the modules
\* list up to its order.
SameUpToModulesOrder(a, b) ==
    /\ a.err = b.err
    /\ DOMAIN a.ch = DOMAIN b.ch
    /\ \A f \in DOMAIN a.ch :
         IF f = "modules" THEN Range(a.ch[f]) = Range(b.ch[f]) ELSE a.ch[f] = b.ch[f]

\* C8, amended: for every order of a given list the change set has the
\* same keys and the same error; the vCMP values are identical, the BIG-IQ
\* modules value holds the same modules, in the order the user gave them.
C8_PermutationSameKeys ==
    pc = "diffed" =>
        \A k \in ListFields :
            ~IsNil(want[k]) =>
                \A q \in Orders(GivenList(want, k)) :
                    LET d == DiffOf(WithList(want, k, q)) IN
                    /\ SameUpToModulesOrder(d, changes)
                    /\ (k = "modules" /\ "modules" \in DOMAIN d.ch)
                          => d.ch.modules = MapModules(q)

\* C8 witness: a diff of a two-element list has flagged the list.
C8_Witness ==
    /\ pc = "diffed"
    /\ \E k \in ListFields :
         /\ ~IsNil(want[k]) /\ Len(Val(want[k])) >= 2
         /\ k \in DOMAIN changes.ch

\* The normalizer of the input applied to v.
NormalizerOn(v) ==
    IF want.kind = "commands" THEN (IF IsNil(v) THEN Nil ELSE normalize_commands(Val(v)))
    ELSE IF want.kind = "chdir" THEN Chdir(v)
    ELSE IF want.kind = "state" THEN WantState(v)
    ELSE MapModules(v)

RepeatedPrefix(c) == HasTmshPrefix(Strip(c)) /\ HasTmshPrefix(LStrip(Tail(Strip(c))))

C10_AbsentIsVerified ==
    (mod \in {"csr", "vcmp", "bigiq"} /\ pc = "done" /\ want.state = "absent"
     /\ ~want.check_mode /\ result.changed = "true") => Verified

\* The running method holds a response outside 200/201/202 that it has not
\* acted on.
BadResponseHeld == "code" \in DOMAIN loc /\ loc.code \notin OkCodes

\* C11: a response whose code is outside {200, 201, 202} (a 404 of an
\* existence check apart) makes the run fail: no step goes on after it,
\* the CSR unix-mv and unix-rm calls and the polls of the UCS task included.
C11_BadResponseFails == BadResponseHeld => pc = "failed"

\* The errors raised by the validation of a desired value.
ValidationMsgs ==
    {"The specified 'mgmt_route' is not a valid IP address.",
     "The specified 'mgmt_address' is not a valid IP address.",
     "Provided device address is not a valid IP.",
     "Module 'shared_security' required for 'afm' module.",
     "Module 'shared_security' required for 'asm' module.",
     "LTM module must be specified for device discovery and import.",
     "When importing APM 'access_group_name' and 'access_conflict_policy' must be specified.",
     "Timeout value must be between 150 and 1800 seconds."}

\* The run was given a value that its validation rejects.
InvalidWant ==
    \/ mod = "ucs" /\ TimeoutInvalid(want.timeout)
    \/ mod = "vcmp" /\ (WantMgmtRoute(want).err # "" \/ WantMgmtAddress(want).err # "")
    \/ mod = "bigiq" /\ (want.device_address = "bad" \/ WantModules(want).err # "")

\* C12: a run given an invalid value does not end well, and a run that has
\* failed with a validation error has issued no device call, GET or other.
C12_ValidationBeforeAnyCall ==
    /\ (pc = "done" /\ mod \in {"ucs", "vcmp", "bigiq"}) => ~InvalidWant
    /\ (pc = "failed" /\ result.msg \in ValidationMsgs) => (reads = 0 /\ calls = <<>>)

\* The command as the user means it to run: primary command plus pipeline
\* suffix, before the tmsh wrapper is put around it.
FinalForm == NormalizeCommand(want.command)

\* C13: a command whose final form holds an odd number of double quotes is
\* never sent, on the REST transport and on the CLI transport, inside tmsh
\* or not.
C13_OddQuotesNeverSent == (mod = "build" /\ pc = "sent") => ~Unbalanced(FinalForm)

\* The response holds the words "already exists".
ContainsAlreadyExists(resp) ==
    \E i \in 1..Len(resp) : HasWords(resp, i, <<"already", "exists">>)

\* The run of bigip_command has ended well after its retry loop.
CmdEnded == mod = "cmd" /\ pc = "done" /\ "resp" \in DOMAIN loc

\* A create, modify or delete command was among the commands sent.
ChangeDispatched ==
    \E i \in 1..Len(loc.commands) : StartsWith(loc.commands[i], changed_command_prefixes)

\* C14 as stated: a response that holds "already exists" anywhere makes the
\* run report changed = false.
C14_SubstringForcesNoChange ==
    (CmdEnded /\ ContainsAlreadyExists(loc.resp)) => result.changed = "false"

\* The responses that open with "The requested" or with "Data Input Error:
\* shared" and close with "already exists".
PatternResponses ==
    { r \in CmdResponses :
        /\ Len(r) >= 4
        /\ <<r[1], r[2]>> \in {<<"The", "requested">>, <<"Data Input Error:", "shared">>}
        /\ <<r[Len(r) - 1], r[Len(r)]>> = <<"already", "exists">> }

\* C14, amended: a response matched by "The requested.*already exists" or
\* by "Data Input Error: shared.*already exists" makes the run report
\* changed = false, whatever was dispatched; any other response, one that
\* holds "already exists" included, leaves changed to the commands.
C14_PatternForcesNoChange ==
    CmdEnded =>
        result.changed =
            IF loc.resp \in PatternResponses THEN "false" ELSE Bool2Str(ChangeDispatched)

\* C14 witness: a modify command was dispatched, the response matched a
\* pattern and the run reported changed = false.
C14_Witness ==
    /\ CmdEnded /\ ChangeDispatched /\ loc.resp \in PatternResponses
    /\ calls # <<>> /\ result.changed = "false"

\* The positions of the pipes of a command.
Pipes(c) == { i \in 1..Len(c) : c[i] = Pipe }

\* A command of the shape "primary | pipeline": one pipe with one blank on
\* each side, no quote, no blank at either end and no two blanks in a row.
OnePipePlain(c) ==
    /\ Cardinality(Pipes(c)) = 1
    /\ CountQuotes(c) = 0
    /\ c = Strip(c)
    /\ \A i \in 1..(Len(c) - 1) : ~(c[i] = Blank /\ c[i + 1] = Blank)
    /\ \E k \in Pipes(c) : 2 < k /\ k < Len(c) - 1 /\ c[k - 1] = Blank /\ c[k + 1] = Blank

PipeAt(c) == CHOOSE k \in Pipes(c) : TRUE

\* A one-pipe command has been split and built.
PipeBuilt == mod = "build" /\ "norm" \in DOMAIN loc /\ OnePipePlain(loc.norm)

RECURSIVE Squeeze(_)
\* The command with every run of blanks made one blank.
Squeeze(c) ==
    IF Len(c) < 2 THEN c
    ELSE IF c[1] = Blank /\ c[2] = Blank THEN Squeeze(Tail(c))
    ELSE <<c[1]>> \o Squeeze(Tail(c))

\* C15 as stated: the split of "primary | pipeline" yields the primary and
\* the pipeline without blanks around them, and joining the two parts
\* again yields the command itself.
C15_SplitAndRejoin ==
    PipeBuilt =>
        LET k == PipeAt(loc.norm) IN
        /\ loc.parts.command = SubSeq(loc.norm, 1, k - 2)
        /\ loc.parts.pipeline = SubSeq(loc.norm, k + 2, Len(loc.norm))
        /\ merge_command_dict_cli(loc.parts).command = loc.norm

\* C15, amended: the split is made at the pipe character and strips
\* nothing: the primary keeps the blank before the pipe, the pipeline the
\* blank after it.  Joining puts " | " between the parts, so the command
\* comes back with two blanks on each side of the pipe: equal to the
\* original once runs of blanks are made one blank.  This is the command
\* sent on the CLI transport inside tmsh without chdir; the other
\* transports wrap the primary part.
C15_SplitKeepsBlanks ==
    PipeBuilt =>
        LET k == PipeAt(loc.norm)
            joined == merge_command_dict_cli(loc.parts).command IN
        /\ loc.parts.err = ""
        /\ loc.parts.command = SubSeq(loc.norm, 1, k - 1)
        /\ loc.parts.pipeline = SubSeq(loc.norm, k + 1, Len(loc.norm))
        /\ Strip(loc.parts.command) = SubSeq(loc.norm, 1, k - 2)
        /\ Strip(loc.parts.pipeline) = SubSeq(loc.norm, k + 2, Len(loc.norm))
        /\ joined = SubSeq(loc.norm, 1, k - 1) \o <<Blank, Pipe, Blank>>
                    \o SubSeq(loc.norm, k + 1, Len(loc.norm))
        /\ merge_command_dict(loc.parts).command = joined
        /\ Squeeze(joined) = loc.norm
        /\ (want.use_ssh /\ dev.is_tmsh /\ IsNil(want.chdir)) => loc.out.command = joined

\* C15 witness: show sys version | grep BIG-IP has been split and sent.
C15_Witness ==
    /\ PipeBuilt /\ pc = "sent" /\ want.command = PipeExample
    /\ Strip(loc.parts.pipeline) = <<"grep", Blank, "BIG-IP">>

\* The logged calls with method m on resource r.
CallsOf(m, r) == { i \in 1..Len(calls) : calls[i].m = m /\ calls[i].r = r }

\* A CSR run for state present has ended well on a device that did not
\* hold the CSR when the run began (the dest checks of present() passed).
CsrCreatedRun ==
    mod = "csr" /\ pc = "done" /\ want.state = "present" /\ ~dev.csr0

\* C16 as stated: such a run has issued exactly one create call, no update
\* call, and reports changed = true.
C16_OneCreateCall ==
    CsrCreatedRun =>
        /\ Cardinality(CallsOf("POST", "sys/crypto/csr")) = 1
        /\ \A i \in 1..Len(calls) : calls[i].m \notin {"PATCH", "PUT"}
        /\ result.changed = "true"

\* C16, amended: outside check mode such a run has issued exactly one
\* create call; in check mode it has issued none.  In both it has issued
\* no update call and reports changed = true.
C16_OneCreateCallUnlessCheckMode ==
    CsrCreatedRun =>
        /\ Cardinality(CallsOf("POST", "sys/crypto/csr")) =
              (IF want.check_mode THEN 0 ELSE 1)
        /\ \A i \in 1..Len(calls) : calls[i].m \notin {"PATCH", "PUT"}
        /\ result.changed = "true"

\* C16 witness: a run outside check mode has created the CSR and ended.
C16_Witness ==
    /\ CsrCreatedRun /\ ~want.check_mode /\ dev.csr
    /\ calls[1].m = "POST" /\ calls[1].r = "sys/crypto/csr"

\* C17: a run that ends without an error returns a result whose changed
\* entry is true or false, never None or missing, in every module and on
\* every path, the check-mode path of bigip_command included.
C17_ChangedIsBoolean == pc = "done" => result.changed \in {"true", "false"}

\* C18: no run ends in an exception other than F5ModuleError: a FAILED or
\* CANCELLED task, unbalanced quotes and unmet wait_for conditions all end
\* in the failure message main() renders.
C18_FatalIsTyped == result.status # "crashed"

\* C19: the payload of the create call of a guest whose mgmt_address was
\* given without a prefix carries the address with the default mask
\* 255.255.255.0, i.e. the prefix length 24.  (By then create() has put
\* the default mask into self.want.)
C19_CreateCarriesDefaultMask ==
    (mod = "vcmp" /\ ~IsNil(want.mgmt_address)
     /\ Val(want.mgmt_address).mask = "255.255.255.0") =>
        \A i \in CallsOf("POST", "vcmp/guest") :
            /\ "mgmt_address" \in DOMAIN calls[i].p
            /\ calls[i].p.mgmt_address = Addr(Val(want.mgmt_address).ip, "24")

SubnetMsg == "A subnet must be specified when changing the mgmt_address."

\* update() has read the guest and compared: a desired mgmt_address
\* without a subnet part was given.
AddressWithoutSubnetCompared ==
    /\ mod = "vcmp" /\ Observed /\ pc # "vcmp_should_update"
    /\ want.state # "absent"
    /\ ~IsNil(want.mgmt_address) /\ Val(want.mgmt_address).mask = ""

\* C20: an update whose desired mgmt_address has no subnet part fails with
\* the subnet error; no PATCH (no call at all) is issued and no change set
\* is kept.
C20_SubnetRequired ==
    AddressWithoutSubnetCompared =>
        /\ pc = "failed" /\ result.msg = SubnetMsg
        /\ calls = <<>>
        /\ changes = <<>>

\* C20 witness: such an update has failed, the desired ip being the one
\* the device holds.
C20_Witness ==
    /\ AddressWithoutSubnetCompared /\ pc = "failed"
    /\ Val(want.mgmt_address).ip = Val(have.mgmt_address).ip

\* The updatables of the vCMP guest that Difference has no property for.
DefaultFields ==
    {"vlans", "mgmt_network", "initial_image", "mgmt_route", "state", "cores_per_slot"}

\* The desired value of a field, as self.want gives it.
DesiredOf(k) ==
    IF k = "state" THEN Some(WantState(want.state))
    ELSE VcmpWantAttr(k, want, dev.images).v

\* The observed value of a field, as self.have gives it.
ObservedOf(k) == IF k = "state" THEN Some(have.state) ELSE have[k]

\* update() has read the guest and _update_changed_options has returned.
UpdateCompared ==
    /\ mod = "vcmp" /\ want.state # "absent"
    /\ Observed /\ pc \notin {"vcmp_should_update", "failed"}

\* C21: after the comparison of an update, a field without a comparison of
\* its own is in the change set exactly when its desired value is not None
\* and differs from the observed value, and then the change set holds the
\* desired value.
C21_DefaultRule ==
    UpdateCompared =>
        \A k \in DefaultFields :
            /\ (k \in DOMAIN changes) <=>
                  (~IsNil(DesiredOf(k)) /\ DesiredOf(k) # ObservedOf(k))
            /\ (k \in DOMAIN changes) => changes[k] = Val(DesiredOf(k))

\* C21 witness: cores_per_slot was given and differs, so it is in the
\* change set; mgmt_route was not given, so it is not.
C21_Witness ==
    /\ UpdateCompared /\ pc = "vcmp_return"
    /\ want.cores_per_slot = Some(2) /\ have.cores_per_slot = Some(1)
    /\ "cores_per_slot" \in DOMAIN changes /\ changes.cores_per_slot = 2
    /\ "mgmt_route" \notin DOMAIN changes

\* The fields the Difference of the vCMP guest flags for (want, have).
VcmpFlagged ==
    { k \in Range(VcmpUpdatables) : ~IsNil(VcmpCompare(k, want, have, dev.images).v) }

\* The fields the Difference of the BIG-IQ device flags for (want, have).
BigiqFlagged ==
    IF IsNil(BigiqDiffModules(want, have).v) THEN {} ELSE {"modules"}

\* The parameter a field of a BIG-IQ task payload is built from.
ParamOf(f) ==
    IF f = "moduleList" THEN "modules"
    ELSE IF f = "conflictPolicy" THEN "conflict_policy"
    ELSE "device_conflict_policy"

IdentityFields == {"name", "partition"}

\* The PATCH calls of update_on_device: those that carry the change set of
\* an update (the lifecycle calls carry the state alone).
VcmpUpdatePatches ==
    { i \in 1..Len(calls) :
        /\ mod = "vcmp" /\ Observed /\ want.state # "absent"
        /\ calls[i].m = "PATCH" /\ calls[i].p = changes }

\* The PATCH of a vCMP update holds flagged fields only.
VcmpPatchOnlyFlagged ==
    \A i \in VcmpUpdatePatches : DOMAIN calls[i].p \subseteq VcmpFlagged

\* The discovery and import calls of a BIG-IQ update.
BigiqUpdateCalls ==
    { i \in 1..Len(calls) :
        /\ mod = "bigiq" /\ Observed
        /\ calls[i].r \in {"tasks/device-discovery", "tasks/device-import"} }

\* The create calls of the CSR.
CsrCreateCalls ==
    { i \in 1..Len(calls) :
        mod = "csr" /\ calls[i].m = "POST" /\ calls[i].r = "sys/crypto/csr" }

CreateReturned ==
    /\ mod = "vcmp" /\ pc = "done" /\ ~Observed
    /\ want.state \in {"configured", "provisioned", "present"}

\* The stages below the target a guest would be driven through.
StagesTo(target) ==
    IF target = "deployed" THEN <<"provisioned", "deployed">>
    ELSE IF target = "provisioned" THEN <<"provisioned">>
    ELSE <<>>

\* The states the lifecycle calls after the first call ask for, in order.
StatesAsked == [i \in 1..(Len(calls) - 1) |-> calls[i + 1].p.state]

\* The first call of the run is the create call.
CreateCallFirst ==
    calls # <<>> /\ calls[1].m = "POST" /\ calls[1].r = "vcmp/guest"

\* The device holds the guest in the target state.
TargetReached ==
    dev.exists /\ dev.g.state = WantState(want.state) /\ dev.vm = "reached"

C24_TimeoutRangeEnforced ==
    (mod = "ucs" /\ TimeoutInvalid(want.timeout)) => pc # "done"

\* C25: a run of bigip_ucs_fetch with fail_on_missing = false does not fail
\* because the UCS is missing on the device, whatever create_on_missing is.
C25_MissingFailsOnlyOnRequest ==
    (mod = "ucs" /\ ~want.fail_on_missing /\ ~dev.ucs)
        => result.msg # "UCS was not found"

\* C26: a run of bigip_ucs_fetch with only_create_file = true that finds
\* the UCS on the device creates no task, downloads no file and reports
\* changed = false.
C26_OnlyCreateFileNoChange ==
    (mod = "ucs" /\ want.only_create_file /\ dev.ucs /\ pc = "done")
        => (calls = <<>> /\ result.changed = "false")

\* The local destination existed when the run began and force is false (for
\* the CSR: and the state is present).
DestHeldUnforced ==
    /\ mod \in {"ucs", "csr"} /\ ~want.force /\ dev.dest0 = "present"
    /\ mod = "csr" => want.state = "present"

\* No call that transfers or prepares the file has been issued, and the
\* destination is as it was.
NothingTransferred ==
    /\ \A i \in 1..Len(calls) :
         /\ calls[i].m \notin {"DOWNLOAD", "BACKUP"}
         /\ mod = "csr" => calls[i].r \notin {"sys/crypto/csr", "util/unix-mv"}
    /\ dev.dest = "present"

RunEnded == pc \in {"done", "failed", "crashed"}

AlreadyExistsMsgs == {"File already exists", "The specified 'dest' file already exists."}

\* C27 as stated: with force = false and the destination there, nothing is
\* transferred, the file is untouched, and the run fails with the
\* already-exists error.
C27_ExistingDestFails ==
    DestHeldUnforced =>
        /\ NothingTransferred
        /\ RunEnded => (pc = "failed" /\ result.msg \in AlreadyExistsMsgs)

\* C27, amended: with force = false and the destination there, nothing is
\* transferred and the file is untouched.  A run that comes to the transfer
\* fails with the already-exists error and never starts it; a run of
\* bigip_ssl_csr ends in no other way but the version error that precedes
\* the test; a run of bigip_ucs_fetch ends well only where it has no
\* transfer to make (only_create_file with the UCS there, or the UCS
\* missing and created), and fails otherwise.
C27_ExistingDestNotTransferred ==
    DestHeldUnforced =>
        /\ NothingTransferred
        /\ pc \notin {"ucs_execute", "csr_create", "csr_move", "csr_download"}
        /\ (mod = "csr" /\ RunEnded) =>
              /\ pc = "failed"
              /\ result.msg \in AlreadyExistsMsgs
                                   \cup {"This module requires TMOS version 14.x and above."}
        /\ (mod = "ucs" /\ RunEnded) =>
              /\ pc \in {"done", "failed"}
              /\ pc = "done" =>
                    (want.task_id = None /\ (want.only_create_file \/ ~dev.ucs))

\* C27 witness: a task has completed, update() found the destination and
\* the run failed with the already-exists error.
C27_Witness ==
    /\ DestHeldUnforced /\ mod = "ucs" /\ want.task_id # None
    /\ pc = "failed" /\ result.msg = "File already exists"
    /\ NothingTransferred

\* The positions of the virtual disks whose name starts with the guest's
\* virtual disk name.
GuestDisks == { i \in 1..Len(dev.disks) : dev.disks[i] = "guest" }

\* C28: a run that has removed the guest with delete_virtual_disk = true
\* and ended well has deleted every virtual disk of the guest, wherever it
\* stands in the device's list; a disk is deleted only once the guest is
\* gone.
C28_AllGuestDisksDeleted ==
    (mod = "vcmp" /\ want.delete_virtual_disk) =>
        /\ (pc = "done" /\ Verified) => GuestDisks \subseteq dev.deleted
        /\ dev.deleted # {} => ~dev.exists

\* C29: the conflict-resolution value every import call of
\* bigiq_device_discovery carries for the Access module is the user's
\* access_conflict_policy in upper case, whatever device_conflict_policy
\* is.
C29_AccessPolicySent ==
    mod = "bigiq" =>
        \A i \in 1..Len(calls) :
            calls[i].r = "tasks/device-import" =>
                \A j \in 1..Len(calls[i].p.moduleList) :
                    LET e == calls[i].p.moduleList[j] IN
                    e.module = "access" =>
                        /\ ~IsNil(e.properties)
                        /\ Val(e.properties).conflict_resolution
                              = Some(Upper(Val(want.access_conflict_policy)))

\* The desired modules list holds ltm, holds security_shared when it holds
\* asm or afm, and comes with access_group_name and access_conflict_policy
\* when it holds apm.
ModulesListValid ==
    LET ms == Range(Val(want.modules)) IN
    /\ "ltm" \in ms
    /\ ("asm" \in ms \/ "afm" \in ms) => "security_shared" \in ms
    /\ "apm" \in ms =>
          (~IsNil(want.access_group_name) /\ ~IsNil(want.access_conflict_policy))

\* The errors ModuleParameters.modules and create() raise about the list.
ModulesMsgs ==
    {"Module 'shared_security' required for 'afm' module.",
     "Module 'shared_security' required for 'asm' module.",
     "LTM module must be specified for device discovery and import.",
     "When importing APM 'access_group_name' and 'access_conflict_policy' must be specified.",
     "List of modules cannot be empty if discovering a device."}

\* A run for state present whose list is to be rejected: the list is not
\* valid, or there is none and the device is not managed.
ModulesRejected ==
    /\ mod = "bigiq" /\ want.state = "present"
    /\ IF IsNil(want.modules) THEN ~dev.managed /\ ~Observed ELSE ~ModulesListValid

TaskCalls ==
    { i \in 1..Len(calls) :
        calls[i].r \in {"tasks/device-trust", "tasks/device-discovery",
                        "tasks/device-import"} }

Batches == { calls[i].it : i \in { j \in DOMAIN calls : calls[j].loop = "retries" } }

\* A run of execute() that went past the check-mode return and ended.
CmdRunEnded == mod = "cmd" /\ RunEnded /\ loc # NoLoc

\* C31: a run of bigip_command that reaches the retry loop sends the
\* command list at least once and at most 'retries' times; without
\* wait_for conditions it sends it exactly once; and it ends with the
\* failed-conditions error exactly when conditions are left unsatisfied
\* after 'retries' iterations.
C31_RetryContract ==
    CmdRunEnded =>
        /\ Cardinality(Batches) >= 1
        /\ Cardinality(Batches) <= want.retries
        /\ want.wait_for = 0 => Cardinality(Batches) = 1
        /\ result.msg = "FailedConditionsError"
               <=> (loc.conditionals > 0 /\ loc.it = want.retries)

\* The commands of the normalized list that start with no prefix of
\* valid_configs.
WriteCommands(commands) ==
    { i \in 1..Len(commands) : ~StartsWith(commands[i], valid_configs) }

\* C32: a run of bigip_command that ends well returns, with warn = true,
\* one non-idempotency warning for every command that starts with no
\* prefix of valid_configs, wherever the command stands in the list, and
\* with warn = false no warning.
C32_WarnEveryWriteCommand ==
    (mod = "cmd" /\ pc = "done" /\ loc # NoLoc) =>
        changes.warnings = IF want.warn THEN Cardinality(WriteCommands(loc.commands))
                           ELSE 0

\* ---------------------------------------------------------------------
\* The task pollers: async_wait of bigip_ucs_fetch and _wait_for_task of
\* bigiq_device_discovery.

UcsTimeoutMsg == "Module timeout reached, state change is unknown"

\* async_wait has polled: loc.x polls went by without an end of the loop,
\* loc.st is the task state of the last poll.
UcsPolled == mod = "ucs" /\ "st" \in DOMAIN loc

\* No poll of async_wait follows a COMPLETED or FAILED task state; FAILED
\* fails the run at once, COMPLETED returns; the timeout error is raised
\* after exactly 'divisor' polls, none of which ended the loop.
UcsPollerStops ==
    /\ UcsPolled =>
         /\ pc = "ucs_async_wait" => loc.st \notin {"COMPLETED", "FAILED"}
         /\ loc.st = "FAILED" => pc = "failed" /\ result.msg = "Task failed unexpectedly."
         /\ loc.st = "COMPLETED" =>
              /\ pc # "ucs_async_wait"
              /\ result.msg \notin {"Task failed unexpectedly.", UcsTimeoutMsg}
    /\ (mod = "ucs" /\ pc = "ucs_async_wait") => loc.x <= 100
    /\ (mod = "ucs" /\ result.msg = UcsTimeoutMsg) =>
         /\ pc = "failed" /\ loc.x = 100
         /\ loc.st \notin {"COMPLETED", "FAILED"}

\* _wait_for_task has polled: loc.polls holds the statuses it was given.
BigiqPolled == mod = "bigiq" /\ "polls" \in DOMAIN loc /\ loc.polls # <<>>

LastPoll == loc.polls[Len(loc.polls)]

\* No poll of _wait_for_task follows a FINISHED, FAILED or CANCELLED
\* status: such a status is the last of the polls and the loop is left;
\* FINISHED returns, FAILED and CANCELLED end the run.  The loop is left
\* on another status only by a response that is not 2xx.
BigiqPollerStops ==
    BigiqPolled =>
        /\ \A i \in 1..(Len(loc.polls) - 1) : loc.polls[i] = "STARTED"
        /\ pc = "bigiq_wait_for_task" => LastPoll = "STARTED"
        /\ LastPoll = "STARTED" =>
             \/ pc = "bigiq_wait_for_task"
             \/ pc = "failed" /\ result.msg = "remote error"
        /\ LastPoll = "FINISHED" =>
             result.msg \notin {"KeyError", "The task process has been cancelled."}
        /\ LastPoll \in {"FAILED", "CANCELLED"} => pc \in {"failed", "crashed"}

\* C33: a task poller stops at the first terminal status it is given and
\* polls no more: _wait_for_task returns on the first FINISHED (after
\* exactly three polls for STARTED, STARTED, FINISHED); async_wait returns
\* on the first COMPLETED, fails on the first FAILED, and otherwise raises
\* the timeout error after exactly 100 polls.
C33_PollerStopsAtTerminal == UcsPollerStops /\ BigiqPollerStops

\* C33 witness: _wait_for_task was given STARTED, STARTED, FINISHED, has
\* returned after these three polls, and the run has ended well.
C33_Witness ==
    /\ mod = "bigiq" /\ pc = "done"
    /\ "polls" \in DOMAIN loc /\ loc.polls = <<"STARTED", "STARTED", "FINISHED">>

\* ---------------------------------------------------------------------
\* bigiq_device_discovery: the order of the tasks.

\* The resources of the tasks a run has started, in the order of the calls.
TasksStarted == [i \in 1..Len(calls) |-> calls[i].r]

StatsTask ==
    IF want.stats_enabled THEN <<"stats-mgmt/agent-install-and-config-task">> ELSE <<>>

\* The tasks of create(), of update() and of remove().
CreateOrder == <<"tasks/device-trust", "tasks/device-discovery", "tasks/device-import">>
                   \o StatsTask

UpdateOrder == <<"tasks/device-discovery", "tasks/device-import">> \o StatsTask

RemoveOrder == <<"tasks/device-remove-mgmt-authority", "tasks/device-remove-trust">>

IsPrefix(s, t) == Len(s) <= Len(t) /\ s = SubSeq(t, 1, Len(s))

\* The tasks started so far are the first tasks of the method that runs.
InTaskOrder(started) ==
    IF want.state = "absent" THEN IsPrefix(started, RemoveOrder)
    ELSE IF started # <<>> /\ started[1] = "tasks/device-trust"
    THEN IsPrefix(started, CreateOrder)
    ELSE IsPrefix(started, UpdateOrder)

\* The last poll of the task started before has returned FINISHED.
PreviousFinished ==
    "polls" \in DOMAIN loc /\ loc.polls # <<>> /\ LastPoll = "FINISHED"

\* A step of bigiq_device_discovery that starts a task.
TaskStarts == mod = "bigiq" /\ calls' # calls

\* C34: the tasks of a BIG-IQ run are started in the order trust,
\* discovery, import, statistics (statistics only when enabled; remove:
\* remove-management-authority, remove-trust), one at a time, and a task
\* other than the first is started only when the last poll of the task
\* before it returned FINISHED: after FAILED or CANCELLED no task is
\* started.
C34_TasksInOrder ==
    [][TaskStarts =>
          /\ Len(calls') = Len(calls) + 1
          /\ InTaskOrder(TasksStarted')
          /\ calls # <<>> => PreviousFinished]_vars

\* C34 witness: a create with statistics enabled has started its four
\* tasks and ended well.
C34_Witness ==
    /\ mod = "bigiq" /\ pc = "done" /\ want.stats_enabled
    /\ TasksStarted = CreateOrder

\* ---------------------------------------------------------------------
\* bigiq_device_discovery: update() of a managed device, with and without
\* force.

RediscoveryTasks ==
    {"tasks/device-discovery", "tasks/device-import",
     "stats-mgmt/agent-install-and-config-task"}

\* update() has read a managed device whose discovered and imported
\* modules hold every module asked for; force is not set.
ModulesAlreadyManaged ==
    /\ mod = "bigiq" /\ want.state = "present" /\ Observed /\ ~want.force
    /\ WantModules(want).err = "" /\ ~IsNil(want.modules)
    /\ ~IsNil(have.modules)
    /\ Range(MapModules(Val(want.modules))) \subseteq Val(have.modules)

\* A run with force set, outside check mode, has read a managed device
\* and ended; its parameters passed the comparison, every response was 2xx
\* and no task has FAILED or was CANCELLED.
ForcedUpdateEnded ==
    /\ mod = "bigiq" /\ want.state = "present" /\ Observed
    /\ want.force /\ ~want.check_mode
    /\ RunEnded
    /\ WantModules(want).err = ""
    /\ want.access_group_name = have.access_group_name
    /\ result.msg # "remote error"
    /\ dev.task \notin {"FAILED", "CANCELLED"}

\* C35: without force, a managed device that holds every module asked for
\* gets no discovery, import or statistics task and a run that ends well
\* reports changed = false; with force, the run rediscovers, re-imports
\* and reports changed = true.
C35_ForceRule ==
    /\ ModulesAlreadyManaged =>
         /\ \A i \in 1..Len(calls) : calls[i].r \notin RediscoveryTasks
         /\ pc = "done" => result.changed = "false"
    /\ ForcedUpdateEnded =>
         /\ pc = "done" /\ result.changed = "true"
         /\ \E i \in 1..Len(calls) : calls[i].r = "tasks/device-discovery"
         /\ \E i \in 1..Len(calls) : calls[i].r = "tasks/device-import"

\* ---------------------------------------------------------------------
\* bigip_vcmp_guest: update() with a change set.

\* update() has returned after update_on_device: the guest was found, the
\* change set is not empty, and the run, outside check mode, ended well.
UpdateReturned ==
    /\ mod = "vcmp" /\ pc = "done" /\ Observed /\ want.state # "absent"
    /\ DOMAIN changes # {} /\ ~want.check_mode

\* The lifecycle PATCH that asks for state st.
StatePatch(st) == CallP("PATCH", "vcmp/guest/name", [state |-> st])

\* The PATCH of update_on_device.
UpdatePatch == CallP("PATCH", "vcmp/guest/name", changes)

\* The calls of an update: configure() before the PATCH when the cores
\* change, update_on_device, then at most the lifecycle call of the target.
UpdateCallsInOrder ==
    \E before \in {<<>>, <<StatePatch("configured")>>},
       after \in {<<>>, <<StatePatch(WantState(want.state))>>} :
        /\ calls = before \o <<UpdatePatch>> \o after
        /\ before # <<>> => "cores_per_slot" \in DOMAIN changes

\* update_on_device sends a change set that holds cores_per_slot.
CoresPatchSent ==
    /\ mod = "vcmp" /\ pc = "vcmp_update_on_device" /\ Observed
    /\ "cores_per_slot" \in DOMAIN changes
    /\ calls' # calls

\* C36: an update with a non-empty change set sends the update PATCH and
\* then drives the guest to the requested target state, where it is when
\* the run returns; a change set that holds cores_per_slot is sent only to
\* a guest that was last observed configured (stopped), configure() having
\* been the only call before.
C36_UpdateThenTarget ==
    /\ [](UpdateReturned =>
            /\ UpdateCallsInOrder
            /\ TargetReached
            /\ result.changed = "true")
    /\ [][CoresPatchSent =>
            /\ dev.g.state = "configured" /\ dev.vm = "reached"
            /\ calls \in {<<>>, <<StatePatch("configured")>>}]_vars

\* C36 witness: a deployed guest whose cores change was configured, then
\* updated, then deployed again, and the run has returned.
C36_Witness ==
    /\ UpdateReturned /\ "cores_per_slot" \in DOMAIN changes
    /\ have.state = "deployed"
    /\ calls = <<StatePatch("configured"), UpdatePatch, StatePatch("deployed")>>

\* ---------------------------------------------------------------------
\* Two runs for a state other than absent.

\* The second run has ended, every response of the device being 2xx or
\* the 404 of a missing resource.
SecondRunEnded == SecondRun /\ RunEnded /\ result.msg # "remote error"

\* C37: the second of two runs with the same parameters for a state other
\* than absent, the first having ended well outside check mode and the
\* device being as that run left it, ends well, reports changed = false
\* and issues no call other than GETs (CSR and vCMP guest).
C37_SecondRunNoChange ==
    SecondRunEnded =>
        /\ pc = "done" /\ result.changed = "false"
        /\ calls = <<SecondRunMark>>

====
